---- MODULE Spec2Model ----
(***************************************************************************)
(* Face-relative layered-relief geometry engine of the TrailCurrent logo   *)
(* plugin: plane-frame extraction, 2D shape construction, layer isolation, *)
(* extrusion, and the sequential boolean combination against a base solid. *)
(*                                                                         *)
(* Representation                                                          *)
(*   - a 2D shape (Part.Face in the local XY plane) is the set of plane    *)
(*     cells it covers; cut / common / fuse are set difference,            *)
(*     intersection and union;                                             *)
(*   - a 3D vector is an integer triple; a unit vector is represented by   *)
(*     the primitive integer vector of its direction;                      *)
(*   - a Python call returns a record whose field exc is "none" or the     *)
(*     name of the exception that left the function.                       *)
(***************************************************************************)
EXTENDS Integers, Sequences, FiniteSets, TLC

VARIABLES op, args, ret, heap, trace, doc

vars == <<op, args, ret, heap, trace, doc>>

\* ------------------------------------------------------------------------
\* Bounds
\* ------------------------------------------------------------------------
NCells == 3

Cells == 1..NCells

Shapes == SUBSET Cells

NoRet == [exc |-> "unset"]

NoDoc == [base |-> "None", results |-> <<>>]

\* ------------------------------------------------------------------------
\* 2D boolean operations of the geometric kernel on planar shapes
\* ------------------------------------------------------------------------
ShapeCut(a, b) == a \ b

ShapeCommon(a, b) == a \cap b

ShapeFuse(a, b) == a \cup b

\* ------------------------------------------------------------------------
\* Layer isolation (logo_deboss.apply_logo, step 2)
\* ------------------------------------------------------------------------
IsolateLogoDropBolt(faces) ==
    [bolt     |-> faces.bolt,
     trail    |-> ShapeCut(faces.trail, faces.bolt),
     mountain |-> ShapeCut(faces.mountain, faces.trail),
     circle   |-> ShapeCut(ShapeCut(ShapeCut(faces.circle, faces.mountain),
                                    faces.trail), faces.bolt)]

IsolateLogoOverCut(faces) ==
    [bolt     |-> faces.bolt,
     trail    |-> ShapeCut(ShapeCut(faces.trail, faces.mountain), faces.bolt),
     mountain |-> ShapeCut(ShapeCut(faces.mountain, faces.trail), faces.bolt),
     circle   |-> ShapeCut(ShapeCut(ShapeCut(faces.circle, faces.mountain),
                                    faces.trail), faces.bolt)]

IsolateLogo(faces) ==
    [bolt     |-> faces.bolt,
     trail    |-> ShapeCut(faces.trail, faces.bolt),
     mountain |-> ShapeCut(ShapeCut(faces.mountain, faces.trail), faces.bolt),
     circle   |-> ShapeCut(ShapeCut(ShapeCut(faces.circle, faces.mountain),
                                    faces.trail), faces.bolt)]

\* Layer isolation (logotext_deboss.apply_logotext, step 2): the four logo
\* layers are isolated as above, the text layer is taken as it is.
IsolateLogoText(faces) ==
    [bolt     |-> faces.bolt,
     trail    |-> ShapeCut(faces.trail, faces.bolt),
     mountain |-> ShapeCut(ShapeCut(faces.mountain, faces.trail), faces.bolt),
     circle   |-> ShapeCut(ShapeCut(ShapeCut(faces.circle, faces.mountain),
                                    faces.trail), faces.bolt),
     text     |-> faces.text]

LogoNames == {"circle", "mountain", "trail", "bolt"}

\* ------------------------------------------------------------------------
\* Specification of the layer isolator as a function of its input shapes
\* ------------------------------------------------------------------------
InitIso ==
    /\ op = "faces"
    /\ args \in [circle : Shapes, mountain : Shapes, trail : Shapes,
                 bolt : Shapes, text : Shapes]
    /\ ret = NoRet
    /\ heap = <<>>
    /\ trace = <<>>
    /\ doc = NoDoc

IsolateInLogo ==
    /\ op = "faces"
    /\ op' = "isolate_logo"
    /\ ret' = IsolateLogo(args)
    /\ UNCHANGED <<args, heap, trace, doc>>

IsolateInLogoText ==
    /\ op = "faces"
    /\ op' = "isolate_logotext"
    /\ ret' = IsolateLogoText(args)
    /\ UNCHANGED <<args, heap, trace, doc>>

NextIso == IsolateInLogo \/ IsolateInLogoText

SpecIso == InitIso /\ [][NextIso]_vars

Isolated == op \in {"isolate_logo", "isolate_logotext"}

\* C1: after the isolation performed by apply_logo and apply_logotext, no
\* plane point belongs to two different logo layers (bolt, trail, mountain,
\* circle), whatever the four input shapes are.
LayersPairwiseDisjoint ==
    Isolated =>
        \A a \in LogoNames : \A b \in LogoNames :
            a # b => ret[a] \cap ret[b] = {}

\* Witness of C1: an isolation ran on inputs in which every lower layer
\* overlaps a higher one.
LayersOverlapIsolated ==
    /\ op = "isolate_logo"
    /\ args.trail \cap args.bolt # {}
    /\ args.mountain \cap args.trail # {}
    /\ args.mountain \cap args.bolt # {}
    /\ args.circle \cap args.mountain # {}

\* C2: the union of the isolated logo layers equals the union of the four
\* input shapes.
LayersUnionPreserved ==
    Isolated =>
        UNION {ret[a] : a \in LogoNames} = UNION {args[a] : a \in LogoNames}

\* Witness of C2: an isolation ran on overlapping inputs and really removed
\* area from a lower layer.
LayersUnionIsolated ==
    /\ op = "isolate_logotext"
    /\ args.mountain \cap args.trail # {}
    /\ ret.mountain # args.mountain
    /\ ret.circle # args.circle
    /\ ret.circle # {}

\* ------------------------------------------------------------------------
\* QR matrix rasterizer (qr_emboss._create_qr_solid)
\*
\* A matrix is a sequence of n rows of n booleans; the code's 0-based
\* matrix[row][col] is matrix[row + 1][col + 1] here.  Lengths in the XY
\* plane are counted in units of 1/(2n) mm, so that for a side length of
\* qr_size mm   half = qr_size / 2 = n * qr_size units   and
\* module_size = qr_size / n = 2 * qr_size units  are integers.  Heights are
\* counted in units of 0.01 mm.
\* ------------------------------------------------------------------------
MaxN == 3

MaxQRSize == 2

DefaultOverlap == 1

MaxHeight == 2

None == [exc |-> "none", value |-> "None"]

Booleans == {TRUE, FALSE}

SquareMatrices(n) == [1..n -> [1..n -> Booleans]]

QRMatrices == UNION {SquareMatrices(n) : n \in 0..MaxN}

ModuleSize(n, qr_size) == 2 * qr_size

Half(n, qr_size) == n * qr_size

\* inner while loop: advance col to the end of the run of dark modules
RECURSIVE RunEnd(_, _, _, _)
RunEndSingle(matrix, row, col, n) == col + 1

RunEnd(matrix, row, col, n) ==
    IF col < n /\ matrix[row + 1][col + 1]
    THEN RunEnd(matrix, row, col + 1, n)
    ELSE col

\* the tuple (x1, y1, x2, y2) appended for the run start..col-1 of a row
RunRectNarrow(start, col, row, n, qr_size) ==
    <<-Half(n, qr_size) + start * ModuleSize(n, qr_size),
      Half(n, qr_size) - (row + 1) * ModuleSize(n, qr_size),
      -Half(n, qr_size) + (start + 1) * ModuleSize(n, qr_size),
      Half(n, qr_size) - row * ModuleSize(n, qr_size)>>

RunRect(start, col, row, n, qr_size) ==
    <<-Half(n, qr_size) + start * ModuleSize(n, qr_size),
      Half(n, qr_size) - (row + 1) * ModuleSize(n, qr_size),
      -Half(n, qr_size) + col * ModuleSize(n, qr_size),
      Half(n, qr_size) - row * ModuleSize(n, qr_size)>>

\* outer while loop over the columns of one row
RECURSIVE ScanRow(_, _, _, _, _)
ScanRow(matrix, row, col, n, qr_size) ==
    IF col >= n THEN <<>>
    ELSE IF matrix[row + 1][col + 1]
         THEN LET end == RunEnd(matrix, row, col, n)
              IN  <<RunRect(col, end, row, n, qr_size)>>
                  \o ScanRow(matrix, row, end, n, qr_size)
         ELSE ScanRow(matrix, row, col + 1, n, qr_size)

\* for row in range(n): the rectangles of all rows, in emission order
RECURSIVE ScanRows(_, _, _, _)
ScanRows(matrix, row, n, qr_size) ==
    IF row >= n THEN <<>>
    ELSE ScanRow(matrix, row, 0, n, qr_size)
         \o ScanRows(matrix, row + 1, n, qr_size)

QRRects(matrix, qr_size) == ScanRows(matrix, 0, Len(matrix), qr_size)

\* _create_qr_solid: None for an empty matrix or a matrix without a dark
\* module, otherwise the compound of the rectangles extruded from
\* z = -overlap by height + overlap.
_create_qr_solidTall(matrix, qr_size, height, overlap) ==
    IF Len(matrix) = 0 THEN None
    ELSE LET rects == QRRects(matrix, qr_size)
         IN  IF rects = <<>> THEN None
             ELSE [exc |-> "none", value |-> "solid", rects |-> rects,
                   zlo |-> -overlap, zhi |-> height + overlap]

_create_qr_solid(matrix, qr_size, height, overlap) ==
    IF Len(matrix) = 0 THEN None
    ELSE LET rects == QRRects(matrix, qr_size)
         IN  IF rects = <<>> THEN None
             ELSE [exc |-> "none", value |-> "solid", rects |-> rects,
                   zlo |-> -overlap, zhi |-> -overlap + (height + overlap)]

\* ------------------------------------------------------------------------
\* Specification of the rasterizer as a function of the module matrix
\* ------------------------------------------------------------------------
InitRaster ==
    /\ op = "matrix"
    /\ args \in [matrix : QRMatrices, qr_size : 1..MaxQRSize]
    /\ ret = NoRet
    /\ heap = <<>>
    /\ trace = <<>>
    /\ doc = NoDoc

Rasterize ==
    /\ op = "matrix"
    /\ op' = "rects"
    /\ ret' = [exc |-> "none", rects |-> QRRects(args.matrix, args.qr_size)]
    /\ UNCHANGED <<args, heap, trace, doc>>

CreateQRSolid ==
    /\ op = "matrix"
    /\ \E height \in 1..MaxHeight :
          /\ op' = "_create_qr_solid"
          /\ args' = [matrix |-> args.matrix, qr_size |-> args.qr_size,
                      height |-> height, overlap |-> DefaultOverlap]
          /\ ret' = _create_qr_solid(args.matrix, args.qr_size, height,
                                     DefaultOverlap)
    /\ UNCHANGED <<heap, trace, doc>>

NextRaster == Rasterize \/ CreateQRSolid

SpecRaster == InitRaster /\ [][NextRaster]_vars

\* the square of module (row, col), 0-based, in plane units
ModuleSquare(row, col, n, qr_size) ==
    <<-(n * qr_size) + col * (2 * qr_size),
      (n * qr_size) - (row + 1) * (2 * qr_size),
      -(n * qr_size) + (col + 1) * (2 * qr_size),
      (n * qr_size) - row * (2 * qr_size)>>

RectInside(a, b) ==
    /\ b[1] <= a[1] /\ a[3] <= b[3]
    /\ b[2] <= a[2] /\ a[4] <= b[4]

RectsOverlap(a, b) ==
    /\ a[1] < b[3] /\ b[1] < a[3]
    /\ a[2] < b[4] /\ b[2] < a[4]

RectArea(r) == (r[3] - r[1]) * (r[4] - r[2])

RECURSIVE SumAreas(_, _)
SumAreas(rects, i) ==
    IF i > Len(rects) THEN 0 ELSE RectArea(rects[i]) + SumAreas(rects, i + 1)

\* marking every module covered by any rectangle
Reconstruct(rects, n, qr_size) ==
    [r \in 1..n |-> [c \in 1..n |->
        \E i \in 1..Len(rects) :
            RectInside(ModuleSquare(r - 1, c - 1, n, qr_size), rects[i])]]

DarkCount(matrix) ==
    Cardinality({rc \in (1..Len(matrix)) \X (1..Len(matrix)) :
                    matrix[rc[1]][rc[2]]})

\* C3: the rectangles of the row-run merge cover exactly the True modules:
\* the matrix rebuilt from the rectangles is the input matrix, no two
\* rectangles overlap, and the areas add up to
\* (number of True cells) x module_size^2.
RectsCoverExactlyDark ==
    op = "rects" =>
        LET n == Len(args.matrix)
            rects == ret.rects
        IN  /\ Reconstruct(rects, n, args.qr_size) = args.matrix
            /\ \A i \in 1..Len(rects) : \A j \in 1..Len(rects) :
                   i # j => ~RectsOverlap(rects[i], rects[j])
            /\ \A i \in 1..Len(rects) : RectArea(rects[i]) > 0
            /\ SumAreas(rects, 1) =
                   DarkCount(args.matrix)
                   * ModuleSize(n, args.qr_size) * ModuleSize(n, args.qr_size)

\* Witness of C3: a matrix with a merged run of two or more modules, a
\* light module and several rectangles was rasterized.
RectsMergedRun ==
    /\ op = "rects"
    /\ Len(ret.rects) >= 2
    /\ \E i \in 1..Len(ret.rects) :
          ret.rects[i][3] - ret.rects[i][1]
              >= 2 * ModuleSize(Len(args.matrix), args.qr_size)
    /\ DarkCount(args.matrix) < Len(args.matrix) * Len(args.matrix)

\* ------------------------------------------------------------------------
\* Block-letter glyph table and text assembly (logotext_geometry)
\*
\* A text is a sequence of one-character strings.  Design coordinates are
\* counted in tenths of a design unit (cap height _CAP = 10.0 is 100);
\* placed coordinates are counted in 1/(10 * 10) of the unit of cap_height,
\* so that  x * scale = x * cap_height / _CAP  is  X * cap_height  for the
\* design coordinate X in tenths.
\* ------------------------------------------------------------------------
_SPACING == 10

_GLYPHS ==
    "T" :> [adv |-> 70,
            outers |-> <<<<<<0, 100>>, <<70, 100>>, <<70, 82>>, <<44, 82>>, <<44, 0>>, <<26, 0>>, <<26, 82>>, <<0, 82>>>>>>,
            holes |-> <<>>] @@
    "C" :> [adv |-> 54,
            outers |-> <<<<<<0, 0>>, <<54, 0>>, <<54, 18>>, <<18, 18>>, <<18, 82>>, <<54, 82>>, <<54, 100>>, <<0, 100>>>>>>,
            holes |-> <<>>] @@
    "r" :> [adv |-> 38,
            outers |-> <<<<<<0, 0>>, <<18, 0>>, <<18, 52>>, <<38, 52>>, <<38, 70>>, <<0, 70>>>>>>,
            holes |-> <<>>] @@
    "a" :> [adv |-> 54,
            outers |-> <<<<<<0, 0>>, <<54, 0>>, <<54, 70>>, <<0, 70>>>>>>,
            holes |-> <<<<<<18, 18>>, <<36, 18>>, <<36, 52>>, <<18, 52>>>>>>] @@
    "i" :> [adv |-> 18,
            outers |-> <<<<<<0, 0>>, <<18, 0>>, <<18, 70>>, <<0, 70>>>>,
                         <<<<0, 82>>, <<18, 82>>, <<18, 100>>, <<0, 100>>>>>>,
            holes |-> <<>>] @@
    "l" :> [adv |-> 18,
            outers |-> <<<<<<0, 0>>, <<18, 0>>, <<18, 100>>, <<0, 100>>>>>>,
            holes |-> <<>>] @@
    "u" :> [adv |-> 54,
            outers |-> <<<<<<0, 0>>, <<54, 0>>, <<54, 70>>, <<36, 70>>, <<36, 18>>, <<18, 18>>, <<18, 70>>, <<0, 70>>>>>>,
            holes |-> <<>>] @@
    "e" :> [adv |-> 54,
            outers |-> <<<<<<0, 0>>, <<54, 0>>, <<54, 26>>, <<18, 26>>, <<18, 44>>, <<54, 44>>, <<54, 70>>, <<0, 70>>>>>>,
            holes |-> <<>>] @@
    "n" :> [adv |-> 54,
            outers |-> <<<<<<0, 0>>, <<18, 0>>, <<18, 52>>, <<36, 52>>, <<36, 0>>, <<54, 0>>, <<54, 70>>, <<0, 70>>>>>>,
            holes |-> <<>>] @@
    "t" :> [adv |-> 42,
            outers |-> <<<<<<0, 0>>, <<18, 0>>, <<18, 52>>, <<42, 52>>, <<42, 70>>, <<18, 70>>, <<18, 100>>, <<0, 100>>>>>>,
            holes |-> <<>>]

MaxTextLen == 3

TextAlphabet == {"T", "a", "i", "Z", " "}

RECURSIVE TextsOfLen(_)
TextsOfLen(k) ==
    IF k = 0 THEN {<<>>}
    ELSE {Append(t, ch) : t \in TextsOfLen(k - 1), ch \in TextAlphabet}

Texts == UNION {TextsOfLen(k) : k \in 0..MaxTextLen}

PlacePolygonAtOrigin(poly, x_offset, cap_height) ==
    [k \in 1..Len(poly) |-> <<poly[k][1] * cap_height, poly[k][2] * cap_height>>]

\* pts = [(x * scale + x_offset, y * scale) for x, y in poly]
PlacePolygon(poly, x_offset, cap_height) ==
    [k \in 1..Len(poly) |->
        <<poly[k][1] * cap_height + x_offset, poly[k][2] * cap_height>>]

\* the fused outer polygons of one glyph with its holes cut out
_build_glyph_face(char, x_offset, cap_height) ==
    IF char \notin DOMAIN _GLYPHS
    THEN [exc |-> "ValueError", msg |-> "No glyph defined for", char |-> char]
    ELSE LET outers == _GLYPHS[char].outers
             holes == _GLYPHS[char].holes
         IN  IF Len(outers) = 0
             THEN [exc |-> "ValueError", msg |-> "has no outer polygons",
                   char |-> char]
             ELSE [exc |-> "none", char |-> char, x |-> x_offset,
                   outers |-> [k \in 1..Len(outers) |->
                       PlacePolygon(outers[k], x_offset, cap_height)],
                   holes |-> [k \in 1..Len(holes) |->
                       PlacePolygon(holes[k], x_offset, cap_height)]]

\* the for loop of _create_text_shape from character i on
RECURSIVE TextLoop(_, _, _, _, _)
TextLoopSkip(text, i, cursor_x, char_shapes, cap_height) ==
    IF i > Len(text)
    THEN [exc |-> "none", char_shapes |-> char_shapes]
    ELSE IF text[i] \notin DOMAIN _GLYPHS
    THEN TextLoop(text, i + 1, cursor_x, char_shapes, cap_height)
    ELSE LET shape == _build_glyph_face(text[i], cursor_x, cap_height)
         IN  TextLoop(text, i + 1,
                      cursor_x + (_GLYPHS[text[i]].adv + _SPACING) * cap_height,
                      Append(char_shapes, shape), cap_height)

TextLoop(text, i, cursor_x, char_shapes, cap_height) ==
    IF i > Len(text)
    THEN [exc |-> "none", char_shapes |-> char_shapes]
    ELSE IF text[i] \notin DOMAIN _GLYPHS
    THEN [exc |-> "ValueError", msg |-> "Unsupported character",
          char |-> text[i]]
    ELSE LET shape == _build_glyph_face(text[i], cursor_x, cap_height)
         IN  IF shape.exc # "none" THEN shape
             ELSE TextLoop(text, i + 1,
                      cursor_x + (_GLYPHS[text[i]].adv + _SPACING) * cap_height,
                      Append(char_shapes, shape), cap_height)

\* _create_text_shape: the fuse of the glyph faces of all characters
_create_text_shape(text, cap_height) ==
    LET loop == TextLoop(text, 1, 0, <<>>, cap_height)
    IN  IF loop.exc # "none" THEN loop
        ELSE IF loop.char_shapes = <<>>
        THEN [exc |-> "ValueError", msg |-> "No characters produced geometry."]
        ELSE [exc |-> "none", value |-> "shape", glyphs |-> loop.char_shapes]

\* ------------------------------------------------------------------------
\* Specification of text assembly as a function of the text
\* ------------------------------------------------------------------------
MaxCapHeight == 2

InitText ==
    /\ op = "text"
    /\ args \in [text : Texts, cap_height : 1..MaxCapHeight]
    /\ ret = NoRet
    /\ heap = <<>>
    /\ trace = <<>>
    /\ doc = NoDoc

CreateTextShape ==
    /\ op = "text"
    /\ op' = "_create_text_shape"
    /\ ret' = _create_text_shape(args.text, args.cap_height)
    /\ UNCHANGED <<args, heap, trace, doc>>

BuildGlyphFace ==
    /\ op = "text"
    /\ Len(args.text) = 1
    /\ op' = "_build_glyph_face"
    /\ ret' = _build_glyph_face(args.text[1], 0, args.cap_height)
    /\ UNCHANGED <<args, heap, trace, doc>>

NextText == CreateTextShape \/ BuildGlyphFace

SpecText == InitText /\ [][NextText]_vars

Unsupported(text) == {i \in 1..Len(text) : text[i] \notin DOMAIN _GLYPHS}

FirstUnsupported(text) ==
    CHOOSE i \in Unsupported(text) : \A j \in Unsupported(text) : i <= j

\* C8: a text with a character outside the glyph table, at any position,
\* makes text assembly raise the unsupported-character error naming that
\* character (the first such character of the text), and no shape, partial
\* or otherwise, is returned.
UnsupportedCharacterRaises ==
    (op = "_create_text_shape" /\ Unsupported(args.text) # {}) =>
        /\ ret.exc = "ValueError"
        /\ ret.msg = "Unsupported character"
        /\ ret.char = args.text[FirstUnsupported(args.text)]
        /\ DOMAIN ret = {"exc", "msg", "char"}

\* Witness of C8: text assembly ran on a text whose unsupported character
\* comes after supported ones.
UnsupportedAfterSupported ==
    /\ op = "_create_text_shape"
    /\ Unsupported(args.text) # {}
    /\ FirstUnsupported(args.text) > 1
    /\ ret.exc = "ValueError"

\* ------------------------------------------------------------------------
\* Vectors (FreeCAD.Vector) as integer triples
\* ------------------------------------------------------------------------
Abs(x) == IF x < 0 THEN -x ELSE x

RECURSIVE GCD(_, _)
GCD(a, b) == IF b = 0 THEN a ELSE GCD(b, a % b)

Neg(v) == <<-v[1], -v[2], -v[3]>>

VAdd(a, b) == <<a[1] + b[1], a[2] + b[2], a[3] + b[3]>>

VScale(v, k) == <<v[1] * k, v[2] * k, v[3] * k>>

Cross(a, b) ==
    <<a[2] * b[3] - a[3] * b[2],
      a[3] * b[1] - a[1] * b[3],
      a[1] * b[2] - a[2] * b[1]>>

ZeroVector == <<0, 0, 0>>

\* Vector.normalize(): the unit vector of the direction of v, represented
\* by the primitive integer vector of that direction
Normalize(v) ==
    LET g == GCD(GCD(Abs(v[1]), Abs(v[2])), Abs(v[3]))
    IN  <<v[1] \div g, v[2] \div g, v[3] \div g>>

\* ------------------------------------------------------------------------
\* Faces (Part.Face) of the base solid
\*
\*   surface      type of face.Surface
\*   Axis         surface.Axis where the surface type has that attribute:
\*                the normal of the mathematical plane, the axis of a
\*                cylinder
\*   midNormal    normal of the mathematical surface at the middle of the
\*                face's ParameterRange
\*   Orientation  "Forward" or "Reversed": the solid lies behind the
\*                mathematical normal or in front of it
\*   CenterOfMass area centroid
\*   room         "ample" when the face extends under the whole relief,
\*                "tight" when it extends under a part of it only
\* ------------------------------------------------------------------------
PlaneAxes == {<<0, 0, 1>>, <<1, 0, 0>>, <<0, -1, 0>>}

Orientations == {"Forward", "Reversed"}

Rooms == {"ample", "tight"}

FaceCenter == <<5, 5, 10>>

PlanarFaces ==
    {[surface |-> "Plane", Axis |-> a, midNormal |-> a, Orientation |-> o,
      CenterOfMass |-> FaceCenter, room |-> r] :
        a \in PlaneAxes, o \in Orientations, r \in Rooms}

CurvedFaces ==
    {[surface |-> "Cylinder", Axis |-> <<0, 0, 1>>, midNormal |-> <<1, 0, 0>>,
      Orientation |-> o, CenterOfMass |-> FaceCenter, room |-> "ample"] :
        o \in Orientations}
    \cup
    {[surface |-> "BSplineSurface", Axis |-> ZeroVector,
      midNormal |-> <<0, 1, 1>>, Orientation |-> o,
      CenterOfMass |-> FaceCenter, room |-> "ample"] : o \in Orientations}

Faces == PlanarFaces \cup CurvedFaces

\* isinstance(surface, Part.Plane): the surface of the face is a plane
IsPlanar(face) == face.surface = "Plane"

\* hasattr(surface, "Axis")
HasAxis(face) == face.surface \in {"Plane", "Cylinder"}

\* the test of the commands before a panel is opened on a selected face:
\* is_planar = hasattr(surface, "Axis") or isinstance(surface, Part.Plane)
is_planar(face) == HasAxis(face) \/ IsPlanar(face)

\* face.normalAt(u, v): the surface normal with the face orientation taken
\* into account, so that it points out of the solid
NormalAt(face) ==
    IF face.Orientation = "Reversed" THEN Neg(face.midNormal)
    ELSE face.midNormal

\* the direction that points away from the solid's interior at the face
Outward(face) == NormalAt(face)

\* seed = the world axis least parallel to normal
SeedMostParallel(normal) ==
    LET ax == Abs(normal[1])
        ay == Abs(normal[2])
        az == Abs(normal[3])
    IN  IF ax >= ay /\ ax >= az THEN <<1, 0, 0>>
        ELSE IF ay >= ax /\ ay >= az THEN <<0, 1, 0>>
        ELSE <<0, 0, 1>>

Seed(normal) ==
    LET ax == Abs(normal[1])
        ay == Abs(normal[2])
        az == Abs(normal[3])
    IN  IF ax <= ay /\ ax <= az THEN <<1, 0, 0>>
        ELSE IF ay <= ax /\ ay <= az THEN <<0, 1, 0>>
        ELSE <<0, 0, 1>>

\* u_axis = normal.cross(seed).normalize(); v_axis = normal.cross(u_axis)
\* .normalize(); normalizing a null vector raises
FrameOf(face, normal) ==
    LET u == Cross(normal, Seed(normal))
    IN  IF u = ZeroVector THEN [exc |-> "FreeCADError"]
        ELSE LET u_axis == Normalize(u)
                 v == Cross(normal, u_axis)
             IN  IF v = ZeroVector THEN [exc |-> "FreeCADError"]
                 ELSE [exc |-> "none", center |-> face.CenterOfMass,
                       u_axis |-> u_axis, v_axis |-> Normalize(v),
                       normal |-> normal]

\* logo_deboss._compute_face_frame
LogoFaceNormal(face) ==
    IF HasAxis(face) THEN face.Axis ELSE NormalAt(face)

Logo_compute_face_frame(face) == FrameOf(face, LogoFaceNormal(face))

\* qr_emboss._compute_face_frame
QR_compute_face_frame(face) ==
    IF NormalAt(face) = ZeroVector THEN [exc |-> "FreeCADError"]
    ELSE FrameOf(face, Normalize(NormalAt(face)))

\* ------------------------------------------------------------------------
\* Specification of the face frame as a function of the face's normal
\* ------------------------------------------------------------------------
MaxNormal == 2

FrameFaces ==
    {[surface |-> "Plane", Axis |-> n, midNormal |-> n, Orientation |-> o,
      CenterOfMass |-> FaceCenter, room |-> "ample"] :
        n \in (-MaxNormal..MaxNormal) \X (-MaxNormal..MaxNormal)
                \X (-MaxNormal..MaxNormal),
        o \in Orientations}

InitFrame ==
    /\ op = "face"
    /\ args \in FrameFaces
    /\ ret = NoRet
    /\ heap = <<>>
    /\ trace = <<>>
    /\ doc = NoDoc

FrameInLogo ==
    /\ op = "face"
    /\ op' = "logo_frame"
    /\ ret' = Logo_compute_face_frame(args)
    /\ UNCHANGED <<args, heap, trace, doc>>

FrameInQR ==
    /\ op = "face"
    /\ op' = "qr_frame"
    /\ ret' = QR_compute_face_frame(args)
    /\ UNCHANGED <<args, heap, trace, doc>>

NextFrame == FrameInLogo \/ FrameInQR

SpecFrame == InitFrame /\ [][NextFrame]_vars

\* logo_deboss._build_transform: columns of the 4x4 matrix
Logo_build_transform(center, u_axis, v_axis, normal) ==
    [x |-> u_axis, y |-> v_axis, z |-> Neg(normal), t |-> center]

\* qr_emboss._build_transform
QR_build_transformOutOnly(center, u_axis, v_axis, normal, emboss) ==
    [x |-> u_axis, y |-> v_axis, z |-> normal, t |-> center]

QR_build_transform(center, u_axis, v_axis, normal, emboss) ==
    [x |-> u_axis, y |-> v_axis,
     z |-> IF emboss THEN normal ELSE Neg(normal),
     t |-> center]

\* ------------------------------------------------------------------------
\* Solids and the 3D boolean operations of the geometric kernel
\*
\* A solid is seen from the face plane: it is the function that gives, for
\* every plane cell under which the solid has material, the height of its
\* surface over the face plane, measured along the direction that points
\* out of the solid (0 on the untouched planar face, negative in a recess).
\* A cutting or fusing solid (tool) is an extruded 2D shape: its footprint
\* foot, its extent zlo..zhi along its local Z axis, and the transform mat
\* that places it.  On a face that is not planar the material is taken to
\* lie along the local Z axis of the tool, as on a planar face whose frame
\* normal points outward.
\*
\* Objects live in heap, a sequence of solids; an object is its index.
\* ------------------------------------------------------------------------
ToolSide(tool, face) ==
    IF IsPlanar(face) /\ tool.mat.z = Outward(face) THEN "out" ELSE "in"

ToolLow(tool, face) ==
    IF ToolSide(tool, face) = "out" THEN tool.zlo ELSE -tool.zhi

ToolHigh(tool, face) ==
    IF ToolSide(tool, face) = "out" THEN tool.zhi ELSE -tool.zlo

\* Part.Shape.cut on solids
KernelCut(solid, tool, face) ==
    [c \in DOMAIN solid |->
        IF /\ c \in tool.foot
           /\ ToolLow(tool, face) < solid[c]
           /\ solid[c] <= ToolHigh(tool, face)
        THEN ToolLow(tool, face)
        ELSE solid[c]]

\* Part.Shape.fuse on solids
KernelFuse(solid, tool, face) ==
    [c \in (DOMAIN solid) \cup tool.foot |->
        IF c \notin DOMAIN solid THEN ToolHigh(tool, face)
        ELSE IF /\ c \in tool.foot
                /\ ToolLow(tool, face) <= solid[c]
                /\ solid[c] < ToolHigh(tool, face)
        THEN ToolHigh(tool, face)
        ELSE solid[c]]

\* Part.Shape.copy: a new object with the same value
ShapeCopyAlias(h, id) == [heap |-> h, id |-> id]

ShapeCopy(h, id) == [heap |-> Append(h, h[id]), id |-> Len(h) + 1]

\* for solid in cutting_solids: result = result.cut(solid)
\* failAt is the step at which the kernel rejects the operation (0: none)
RECURSIVE CutLoop(_, _, _, _, _, _, _)
CutLoopSwallow(h, result, solids, i, failAt, face, tr) ==
    IF i > Len(solids)
    THEN [exc |-> "none", result |-> result, heap |-> h, trace |-> tr]
    ELSE IF i = failAt
    THEN CutLoop(h, result, solids, i + 1, failAt, face,
                 Append(tr, "cut:raise"))
    ELSE LET h2 == Append(h, KernelCut(h[result], solids[i], face))
         IN  CutLoop(h2, Len(h2), solids, i + 1, failAt, face,
                     Append(tr, "cut"))

\* every cut taken from the copy of the body shape and not from the result
\* of the cut before it: the solid of the last cut is returned
CutLoopFromCopy(h, result, solids, i, failAt, face, tr) ==
    IF i > Len(solids)
    THEN [exc |-> "none", result |-> Len(h), heap |-> h, trace |-> tr]
    ELSE IF i = failAt
    THEN [exc |-> "OCCError", heap |-> h, trace |-> Append(tr, "cut:raise")]
    ELSE CutLoop(Append(h, KernelCut(h[result], solids[i], face)), result,
                 solids, i + 1, failAt, face, Append(tr, "cut"))

CutLoop(h, result, solids, i, failAt, face, tr) ==
    IF i > Len(solids)
    THEN [exc |-> "none", result |-> result, heap |-> h, trace |-> tr]
    ELSE IF i = failAt
    THEN [exc |-> "OCCError", heap |-> h, trace |-> Append(tr, "cut:raise")]
    ELSE LET h2 == Append(h, KernelCut(h[result], solids[i], face))
         IN  CutLoop(h2, Len(h2), solids, i + 1, failAt, face,
                     Append(tr, "cut"))

\* ------------------------------------------------------------------------
\* Logo artwork (logo_geometry)
\*
\* The plane of the logo is divided into the regions in which the artwork
\* of the SVG source arranges its four elements:
\*    1 circle only            2 mountain only       3 mountain and trail
\*    4 trail only             5 mountain and bolt   6 mountain, trail, bolt
\*    7 bolt only              8 outside the circle  9 outside the circle,
\*                                                     under the text
\* ------------------------------------------------------------------------
LogoPlane == 1..9

CircleDisc == 1..7

SVG_MOUNTAIN == {2, 3, 5, 6}

SVG_TRAIL == {3, 4, 6}

SVG_BOLT == {5, 6, 7}

TextRegion == {9}

create_logo_faces(diameter) ==
    [circle   |-> CircleDisc,
     mountain |-> ShapeCommon(SVG_MOUNTAIN, CircleDisc),
     trail    |-> ShapeCommon(SVG_TRAIL, CircleDisc),
     bolt     |-> ShapeCommon(SVG_BOLT, CircleDisc)]

LogoRoom(face) == IF face.room = "ample" THEN LogoPlane ELSE 1..4

\* the solid whose face carries the relief, before the call
LogoBaseSolid(face) == [c \in LogoRoom(face) |-> 0]

\* ------------------------------------------------------------------------
\* apply_logo (logo_deboss)
\*
\* total_depth is counted in units of 1e-4 mm, a ratio in percent, and a
\* layer depth in units of 1e-6 mm: depth = total_depth * ratio.
\* ------------------------------------------------------------------------
DepthEpsilon == 100

ApplyLogoParams ==
    {"diameter", "total_depth", "mountain_ratio", "trail_ratio",
     "bolt_ratio", "x_offset", "y_offset"}

ApplyLogoDefaults ==
    [diameter |-> 18, total_depth |-> 8000, mountain_ratio |-> 55,
     trail_ratio |-> 30, bolt_ratio |-> 15, x_offset |-> 0, y_offset |-> 0]

\* Positions are counted in 1/Milli of the unit of the offsets.
Milli == 1000

\* a / sqrt(q) rounded to the nearest integer, for a >= 0 and q > 0, found
\* by bisection between lo and hi
RECURSIVE RoundDivSqrt(_, _, _, _)
RoundDivSqrt(a, q, lo, hi) ==
    IF lo = hi THEN lo
    ELSE LET mid == (lo + hi + 1) \div 2
         IN  IF (2 * mid - 1) * (2 * mid - 1) * q <= 4 * a * a
             THEN RoundDivSqrt(a, q, mid, hi)
             ELSE RoundDivSqrt(a, q, lo, mid - 1)

\* axis * offset for the unit vector axis, which the model holds as the
\* primitive integer vector of its direction: each component is
\* offset * axis[i] / |axis|, in 1/Milli
AlongUnit(axis, offset) ==
    LET q == axis[1] * axis[1] + axis[2] * axis[2] + axis[3] * axis[3]
        Comp(i) ==
            (IF axis[i] * offset < 0 THEN -1 ELSE 1)
                * RoundDivSqrt(Milli * Abs(axis[i] * offset), q, 0,
                               Milli * Abs(axis[i] * offset))
    IN  <<Comp(1), Comp(2), Comp(3)>>

\* placement = Vector(center) + u_axis * x_offset + v_axis * y_offset
Placement(center, u_axis, v_axis, x_offset, y_offset) ==
    VAdd(VAdd(VScale(center, Milli), AlongUnit(u_axis, x_offset)),
         AlongUnit(v_axis, y_offset))

\* total_depth * ratio: total_depth in 1e-4 mm, ratio in percent, the
\* product in 1e-6 mm
LayerDepthClamped(total_depth, ratio) ==
    total_depth * (IF ratio > 100 THEN 100 ELSE ratio)

LayerDepth(total_depth, ratio) == total_depth * ratio

\* the loop that extrudes and transforms the layers that are deep enough
RECURSIVE CuttingSolids(_, _, _, _, _)
CuttingSolidsAboveOnly(names, i, layers, depths, mat) ==
    IF i > Len(names) THEN <<>>
    ELSE IF depths[names[i]] <= DepthEpsilon
    THEN CuttingSolids(names, i + 1, layers, depths, mat)
    ELSE <<[name |-> names[i], foot |-> layers[names[i]], zlo |-> 0,
            zhi |-> depths[names[i]], mat |-> mat]>>
         \o CuttingSolids(names, i + 1, layers, depths, mat)

CuttingSolids(names, i, layers, depths, mat) ==
    IF i > Len(names) THEN <<>>
    ELSE IF depths[names[i]] < DepthEpsilon
    THEN CuttingSolids(names, i + 1, layers, depths, mat)
    ELSE <<[name |-> names[i], foot |-> layers[names[i]], zlo |-> 0,
            zhi |-> depths[names[i]], mat |-> mat]>>
         \o CuttingSolids(names, i + 1, layers, depths, mat)

ExtrudeTrace(solids) ==
    [k \in 1..(2 * Len(solids)) |->
        IF k % 2 = 1 THEN "extrude" ELSE "transform"]

LogoLayerOrder == <<"circle", "mountain", "trail", "bolt">>

IsolationTrace == <<"cut2d", "cut2d", "cut2d", "cut2d", "cut2d", "cut2d">>

apply_logo(h, body_shape, face, kw, failAt) ==
    IF ~(DOMAIN kw \subseteq ApplyLogoParams)
    THEN [exc |-> "TypeError", heap |-> h, trace |-> <<>>]
    ELSE
    LET p == kw @@ ApplyLogoDefaults
        frame == Logo_compute_face_frame(face)
    IN  IF frame.exc # "none"
        THEN [exc |-> frame.exc, heap |-> h,
              trace |-> <<"_compute_face_frame">>]
        ELSE
        LET placement == Placement(frame.center, frame.u_axis, frame.v_axis,
                                   p.x_offset, p.y_offset)
            mat == Logo_build_transform(placement, frame.u_axis,
                                        frame.v_axis, frame.normal)
            faces == create_logo_faces(p.diameter)
            layers == IsolateLogo(faces)
            depths == [circle   |-> p.total_depth * 100,
                       mountain |-> LayerDepth(p.total_depth, p.mountain_ratio),
                       trail    |-> LayerDepth(p.total_depth, p.trail_ratio),
                       bolt     |-> LayerDepth(p.total_depth, p.bolt_ratio)]
            cutting_solids == CuttingSolids(LogoLayerOrder, 1, layers,
                                            depths, mat)
            copy == ShapeCopy(h, body_shape)
            cut == CutLoop(copy.heap, copy.id, cutting_solids, 1, failAt,
                           face, <<>>)
            tr == <<"_compute_face_frame", "_build_transform",
                    "create_logo_faces">>
                  \o IsolationTrace \o ExtrudeTrace(cutting_solids)
                  \o <<"copy">> \o cut.trace
        IN  IF cut.exc # "none"
            THEN [exc |-> cut.exc, heap |-> cut.heap, trace |-> tr,
                  frame |-> frame, mat |-> mat]
            ELSE [exc |-> "none", result |-> cut.result, heap |-> cut.heap,
                  trace |-> tr, frame |-> frame, mat |-> mat,
                  layers |-> layers, depths |-> depths,
                  cutting_solids |-> cutting_solids]

\* ------------------------------------------------------------------------
\* create_logotext_faces (logotext_geometry) and apply_logotext
\* (logotext_deboss)
\* ------------------------------------------------------------------------
TrailCurrentText ==
    <<"T", "r", "a", "i", "l", "C", "u", "r", "r", "e", "n", "t">>

\* text_cap_height = diameter * 0.55, in units of 0.01 of the diameter unit
create_logotext_faces(diameter) ==
    LET text_shape == _create_text_shape(TrailCurrentText, diameter * 55)
    IN  IF text_shape.exc # "none" THEN text_shape
        ELSE [exc |-> "none",
              faces |-> [text |-> TextRegion] @@ create_logo_faces(diameter),
              text_shape |-> text_shape]

ApplyLogoTextParams ==
    {"diameter", "total_depth", "mountain_ratio", "trail_ratio",
     "bolt_ratio", "text_ratio", "x_offset", "y_offset", "rotation"}

ApplyLogoTextDefaults ==
    [diameter |-> 18, total_depth |-> 8000, mountain_ratio |-> 55,
     trail_ratio |-> 30, bolt_ratio |-> 15, text_ratio |-> 100,
     x_offset |-> 0, y_offset |-> 0, rotation |-> 0]

\* math.cos / math.sin of an angle in degrees, for the multiples of 90
CosDeg(deg) ==
    LET r == deg % 360
    IN  IF r = 0 THEN 1 ELSE IF r = 180 THEN -1 ELSE 0

SinDeg(deg) ==
    LET r == deg % 360
    IN  IF r = 90 THEN 1 ELSE IF r = 270 THEN -1 ELSE 0

\* if rotation: u_axis, v_axis = u_rot, v_rot
RotateFrameUOnly(frame, rotation) ==
    IF rotation = 0 THEN frame
    ELSE [frame EXCEPT
            !.u_axis = VAdd(VScale(frame.u_axis, CosDeg(rotation)),
                            VScale(frame.v_axis, SinDeg(rotation)))]

RotateFrame(frame, rotation) ==
    IF rotation = 0 THEN frame
    ELSE [frame EXCEPT
            !.u_axis = VAdd(VScale(frame.u_axis, CosDeg(rotation)),
                            VScale(frame.v_axis, SinDeg(rotation))),
            !.v_axis = VAdd(VScale(Neg(frame.u_axis), SinDeg(rotation)),
                            VScale(frame.v_axis, CosDeg(rotation)))]

LogoTextLayerOrder == <<"circle", "mountain", "trail", "bolt", "text">>

\* steps 3 and 4 of apply_logotext: the layers that are deep enough are
\* extruded and cut out of a copy of the body shape, in order
apply_logotext_cut(h, body_shape, face, failAt, frame, mat, layers, depths, cutting_solids) ==
    LET copy == ShapeCopy(h, body_shape)
        cut == CutLoop(copy.heap, copy.id, cutting_solids, 1, failAt,
                       face, <<>>)
        tr == <<"_compute_face_frame", "_build_transform",
                "create_logotext_faces">>
              \o IsolationTrace \o ExtrudeTrace(cutting_solids)
              \o <<"copy">> \o cut.trace
    IN  IF cut.exc # "none"
        THEN [exc |-> cut.exc, heap |-> cut.heap, trace |-> tr,
              frame |-> frame, mat |-> mat]
        ELSE [exc |-> "none", result |-> cut.result,
              heap |-> cut.heap, trace |-> tr, frame |-> frame,
              mat |-> mat, layers |-> layers, depths |-> depths,
              cutting_solids |-> cutting_solids]

\* step 2 of apply_logotext, on the faces made by create_logotext_faces
apply_logotext_layers(h, body_shape, face, failAt, p, frame, mat, made) ==
    IF made.exc # "none"
    THEN [exc |-> made.exc, heap |-> h,
          trace |-> <<"_compute_face_frame", "_build_transform",
                      "create_logotext_faces">>]
    ELSE
    LET depths == [circle   |-> p.total_depth * 100,
                   mountain |-> LayerDepth(p.total_depth, p.mountain_ratio),
                   trail    |-> LayerDepth(p.total_depth, p.trail_ratio),
                   bolt     |-> LayerDepth(p.total_depth, p.bolt_ratio),
                   text     |-> LayerDepth(p.total_depth, p.text_ratio)]
    IN  apply_logotext_cut(h, body_shape, face, failAt, frame, mat,
            IsolateLogoText(made.faces), depths,
            CuttingSolids(LogoTextLayerOrder, 1,
                          IsolateLogoText(made.faces), depths, mat))

apply_logotext(h, body_shape, face, kw, failAt) ==
    IF ~(DOMAIN kw \subseteq ApplyLogoTextParams)
    THEN [exc |-> "TypeError", heap |-> h, trace |-> <<>>]
    ELSE
    LET p == kw @@ ApplyLogoTextDefaults
        frame0 == Logo_compute_face_frame(face)
    IN  IF frame0.exc # "none"
        THEN [exc |-> frame0.exc, heap |-> h,
              trace |-> <<"_compute_face_frame">>]
        ELSE
        LET frame == RotateFrame(frame0, p.rotation)
            placement == Placement(frame.center, frame.u_axis, frame.v_axis,
                                   p.x_offset, p.y_offset)
            mat == Logo_build_transform(placement, frame.u_axis,
                                        frame.v_axis, frame.normal)
        IN  apply_logotext_layers(h, body_shape, face, failAt, p, frame, mat,
                                  create_logotext_faces(p.diameter))

\* ------------------------------------------------------------------------
\* apply_qr (qr_emboss)
\*
\* size is counted in mm, height and overlap in units of 0.01 mm.  The QR
\* encoding library is outside the program: lib.available says whether it
\* could be imported, lib.matrix is the matrix it returns for the call.
\* The plane cells of a QR relief are the modules <<row, col>>.
\* ------------------------------------------------------------------------
ApplyQRParams ==
    {"size", "height", "emboss", "error_correction", "border", "x_offset",
     "y_offset"}

ApplyQRDefaults ==
    [size |-> 20, height |-> 50, emboss |-> TRUE, error_correction |-> "M",
     border |-> 2, x_offset |-> 0, y_offset |-> 0]

\* the text of the ImportError of check_qrcode_available
InstallGuidance ==
    "The 'qrcode' Python package is required for QR code generation. Install it in FreeCAD's Python environment: pip install qrcode"

\* check_qrcode_available and generate_qr_matrix
generate_qr_matrixUnchecked(url, error_correction, border, lib) ==
    [exc |-> "none", matrix |-> lib.matrix]

generate_qr_matrix(url, error_correction, border, lib) ==
    IF ~lib.available
    THEN [exc |-> "ImportError", msg |-> InstallGuidance]
    ELSE [exc |-> "none", matrix |-> lib.matrix]

\* module_size_mm = size / float(n), as the fraction num / den of a mm
module_size_mmOffByOne(size, n) == [num |-> size, den |-> n + 1]

module_size_mm(size, n) == [num |-> size, den |-> n]

QRModules(n) == (1..n) \X (1..n)

QRRoom(face, n) ==
    IF face.room = "ample" THEN QRModules(n) ELSE {1} \X (1..n)

QRBaseSolid(face, n) == [c \in QRRoom(face, n) |-> 0]

\* the modules covered by the faces of the compound
RectsFootprint(rects, n, qr_size) ==
    {rc \in QRModules(n) :
        \E i \in 1..Len(rects) :
            RectInside(ModuleSquare(rc[1] - 1, rc[2] - 1, n, qr_size),
                       rects[i])}

apply_qr(h, body_shape, face, url, kw, lib, failAt) ==
    IF ~(DOMAIN kw \subseteq ApplyQRParams)
    THEN [exc |-> "TypeError", heap |-> h, trace |-> <<>>]
    ELSE
    LET p == kw @@ ApplyQRDefaults
        gen == generate_qr_matrix(url, p.error_correction, p.border, lib)
    IN  IF gen.exc # "none"
        THEN [exc |-> gen.exc, msg |-> gen.msg, heap |-> h, trace |-> <<>>]
        ELSE
        LET matrix == gen.matrix
            n == Len(matrix)
        IN  IF n = 0
            THEN [exc |-> "ZeroDivisionError", heap |-> h,
                  trace |-> <<"generate_qr_matrix">>]
            ELSE
            LET solid == _create_qr_solid(matrix, p.size, p.height,
                                          DefaultOverlap)
            IN  IF solid.value = "None"
                THEN [exc |-> "RuntimeError",
                      msg |-> "QR matrix produced no dark modules.",
                      heap |-> h,
                      trace |-> <<"generate_qr_matrix", "_create_qr_solid">>]
                ELSE
                LET frame == QR_compute_face_frame(face)
                IN  IF frame.exc # "none"
                    THEN [exc |-> frame.exc, heap |-> h,
                          trace |-> <<"generate_qr_matrix",
                                      "_create_qr_solid", "extrude",
                                      "_compute_face_frame">>]
                    ELSE
                    LET placement == Placement(frame.center, frame.u_axis,
                                         frame.v_axis, p.x_offset, p.y_offset)
                        mat == QR_build_transform(placement, frame.u_axis,
                                   frame.v_axis, frame.normal, p.emboss)
                        tool == [name |-> "qr",
                                 foot |-> RectsFootprint(solid.rects, n,
                                                         p.size),
                                 zlo |-> solid.zlo, zhi |-> solid.zhi,
                                 mat |-> mat]
                        copy == ShapeCopy(h, body_shape)
                        tr == <<"generate_qr_matrix", "_create_qr_solid",
                                "extrude", "_compute_face_frame",
                                "_build_transform", "transform", "copy">>
                    IN  IF failAt = 1
                        THEN [exc |-> "OCCError", heap |-> copy.heap,
                              trace |-> Append(tr,
                                  IF p.emboss THEN "fuse:raise"
                                  ELSE "cut:raise"),
                              frame |-> frame, mat |-> mat]
                        ELSE
                        LET new == IF p.emboss
                                   THEN KernelFuse(copy.heap[copy.id], tool,
                                                   face)
                                   ELSE KernelCut(copy.heap[copy.id], tool,
                                                  face)
                            h2 == Append(copy.heap, new)
                        IN  [exc |-> "none", result |-> Len(h2),
                             module_size_mm |-> module_size_mm(p.size, n),
                             heap |-> h2,
                             trace |-> Append(tr, IF p.emboss THEN "fuse"
                                                  ELSE "cut"),
                             frame |-> frame, mat |-> mat, solid |-> solid]

\* ------------------------------------------------------------------------
\* Document, task panel and feature proxy of the logo command (logo_command)
\*
\* doc.base is the object whose face was selected: the selected face, the
\* visibility, and whether the object lives in a PartDesign::Body; its shape
\* is the solid LogoBaseSolid(face) or QRBaseSolid(face, n) that carries
\* that face;
\* doc.results are the LogoDeboss result objects of the document.
\* ------------------------------------------------------------------------
LogoResultPD ==
    [Name |-> "LogoDeboss", TypeId |-> "PartDesign::FeaturePython",
     BaseFeature |-> "Pad", Shape |-> <<>>,
     props |-> [Logo_Diameter |-> 18, Logo_TotalDepth |-> 8000,
                Logo_MountainPct |-> 55, Logo_TrailPct |-> 30,
                Logo_BoltPct |-> 15, Logo_XOffset |-> 0, Logo_YOffset |-> 0,
                Logo_Rotation |-> 0, Logo_FaceName |-> "Face1",
                Logo_OriginalBody |-> "Body"]]

LogoResultRoot ==
    [Name |-> "LogoDeboss", TypeId |-> "Part::FeaturePython",
     BaseFeature |-> "None", Shape |-> <<>>,
     props |-> [Logo_Diameter |-> 18, Logo_TotalDepth |-> 8000,
                Logo_MountainPct |-> 55, Logo_TrailPct |-> 30,
                Logo_BoltPct |-> 15, Logo_XOffset |-> 0, Logo_YOffset |-> 0,
                Logo_Rotation |-> 0, Logo_FaceName |-> "Face1",
                Logo_OriginalBody |-> "Box"]]

Documents ==
    {[base |-> [Name |-> IF inBody THEN "Pad" ELSE "Box",
                inBody |-> inBody, Tip |-> "Pad", face |-> face,
                Visibility |-> TRUE],
      results |-> IF ~stored THEN <<>>
                  ELSE IF inBody THEN <<LogoResultPD>>
                  ELSE <<LogoResultRoot>>] :
        face \in Faces, inBody \in Booleans, stored \in Booleans}

RemoveAtKeep(seq, k) == seq

\* doc.removeObject
RemoveAt(seq, k) ==
    [j \in 1..(Len(seq) - 1) |-> IF j < k THEN seq[j] ELSE seq[j + 1]]

\* doc.addObject(type, label) names the object label, label001, ...: the
\* first of these names that no object of the document has
LogoDebossNames ==
    <<"LogoDeboss", "LogoDeboss001", "LogoDeboss002", "LogoDeboss003">>

UniqueName(d, names) ==
    names[CHOOSE k \in 1..Len(names) :
            /\ \A j \in 1..Len(d.results) : d.results[j].Name # names[k]
            /\ \A i \in 1..(k - 1) :
                  \E j \in 1..Len(d.results) : d.results[j].Name = names[i]]

\* doc.getObject(name) among the result objects: its index, 0 for None
ResultIndex(d, name) ==
    IF \E k \in 1..Len(d.results) : d.results[k].Name = name
    THEN CHOOSE k \in 1..Len(d.results) : d.results[k].Name = name
    ELSE 0

\* obj.Shape of the object called name, in the cells of the logo plane; the
\* Body container shows the shape of its tip
ObjectShape(d, name) ==
    IF name = d.base.Name THEN LogoBaseSolid(d.base.face)
    ELSE IF name = "Body" THEN
        (IF d.base.Tip = d.base.Name THEN LogoBaseSolid(d.base.face)
         ELSE d.results[ResultIndex(d, d.base.Tip)].Shape)
    ELSE d.results[ResultIndex(d, name)].Shape

\* QDoubleSpinBox.setValue followed by value(): the value rounded to the
\* displayed decimals (grain) and clamped to the range of the box
SpinBox(v, lo, hi, grain) ==
    LET r == ((2 * v + grain) \div (2 * grain)) * grain
    IN  IF r < lo THEN lo ELSE IF r > hi THEN hi ELSE r

\* the values of the spin boxes when OK is pressed: total depth in units of
\* 1e-4 mm, the depths of the layers in percent, rotation in degrees
LogoWidgets ==
    [diameter : {18}, total_depth : {1000, 8000}, mountain_pct : {55},
     trail_pct : {30}, bolt_pct : {5, 15}, x_offset : {0, 3},
     y_offset : {0}, rotation : {0, 90}]

\* the prefill dictionary built from the stored properties, as the spin
\* boxes hold it after _apply_prefill
LogoPrefill(obj) ==
    [diameter     |-> SpinBox(obj.props.Logo_Diameter, 5, 100, 1),
     total_depth  |-> SpinBox(obj.props.Logo_TotalDepth, 1000, 50000, 100),
     mountain_pct |-> SpinBox(obj.props.Logo_MountainPct, 10, 90, 1),
     trail_pct    |-> SpinBox(obj.props.Logo_TrailPct, 5, 80, 1),
     bolt_pct     |-> SpinBox(obj.props.Logo_BoltPct, 5, 70, 1),
     x_offset     |-> SpinBox(obj.props.Logo_XOffset, -500, 500, 1),
     y_offset     |-> SpinBox(obj.props.Logo_YOffset, -500, 500, 1),
     rotation     |-> SpinBox(obj.props.Logo_Rotation, -180, 180, 1)]

\* _LogoDebossProxy.execute: recompute of one result object
LogoProxy_setShape(obj, call) ==
    IF call.exc # "none"
    THEN [shape_set |-> FALSE, obj |-> obj, error |-> call.exc]
    ELSE [shape_set |-> TRUE, error |-> "none",
          obj |-> [obj EXCEPT !.Shape = call.heap[call.result]]]

LogoProxy_execute(d, obj, failAt) ==
    IF obj.BaseFeature = "None" THEN [shape_set |-> FALSE, obj |-> obj,
                                      error |-> "none"]
    ELSE LogoProxy_setShape(obj,
            apply_logo(<<LogoBaseSolid(d.base.face)>>, 1, d.base.face,
                    [diameter |-> obj.props.Logo_Diameter,
                     total_depth |-> obj.props.Logo_TotalDepth,
                     mountain_ratio |-> obj.props.Logo_MountainPct,
                     trail_ratio |-> obj.props.Logo_TrailPct,
                     bolt_ratio |-> obj.props.Logo_BoltPct,
                     x_offset |-> obj.props.Logo_XOffset,
                     y_offset |-> obj.props.Logo_YOffset,
                     rotation |-> obj.props.Logo_Rotation], failAt))

\* base_shape.cut(new_shape): the material of base that new lacks, as the
\* extent lo..hi along the normal under each cell where material is missing
SolidDifference(base, new) ==
    [c \in {x \in DOMAIN base : new[x] < base[x]} |->
        [lo |-> new[c], hi |-> base[c]]]

\* _LogoTextDebossProxy.execute after its guards: Shape and AddSubShape
\* are set from the orchestrator's result, an exception is logged
LogoTextProxy_setShape(obj, base_shape, call) ==
    IF call.exc # "none"
    THEN [shape_set |-> FALSE, obj |-> obj, error |-> call.exc]
    ELSE LET new_shape == call.heap[call.result]
         IN  [shape_set |-> TRUE, error |-> "none",
              obj |-> IF "AddSubShape" \in DOMAIN obj
                      THEN [obj EXCEPT
                              !.Shape = new_shape,
                              !.AddSubShape =
                                  SolidDifference(base_shape, new_shape)]
                      ELSE [obj EXCEPT !.Shape = new_shape]]

\* the object whose shape execute starts from: BaseFeature, else the object
\* named by LogoText_OriginalBody, else none
LogoTextProxy_base(d, obj) ==
    IF obj.BaseFeature # "None" THEN obj.BaseFeature
    ELSE IF obj.props.LogoText_OriginalBody # ""
            /\ (obj.props.LogoText_OriginalBody \in {d.base.Name, "Body"}
                \/ ResultIndex(d, obj.props.LogoText_OriginalBody) # 0)
    THEN obj.props.LogoText_OriginalBody
    ELSE "None"

\* _LogoTextDebossProxy.execute; the face named LogoText_FaceName of the
\* base shape is the selected face
LogoTextProxy_execute(d, obj, failAt) ==
    IF \/ "LogoText_Diameter" \notin DOMAIN obj.props
       \/ LogoTextProxy_base(d, obj) = "None"
       \/ obj.props.LogoText_FaceName = ""
    THEN [shape_set |-> FALSE, obj |-> obj, error |-> "none"]
    ELSE CHOOSE done \in
            {LogoTextProxy_setShape(obj, base_shape, call) :
                base_shape \in {ObjectShape(d, LogoTextProxy_base(d, obj))},
                call \in {apply_logotext(
                    <<ObjectShape(d, LogoTextProxy_base(d, obj))>>, 1,
                    d.base.face,
                    [diameter |-> obj.props.LogoText_Diameter,
                     total_depth |-> obj.props.LogoText_TotalDepth,
                     mountain_ratio |-> obj.props.LogoText_MountainPct,
                     trail_ratio |-> obj.props.LogoText_TrailPct,
                     bolt_ratio |-> obj.props.LogoText_BoltPct,
                     text_ratio |-> obj.props.LogoText_TextPct,
                     x_offset |-> obj.props.LogoText_XOffset,
                     y_offset |-> obj.props.LogoText_YOffset,
                     rotation |-> obj.props.LogoText_Rotation],
                    failAt)}} : TRUE

\* the execute method of the proxy of a result object; _QRCodeProxy.execute
\* does nothing
Proxy_execute(d, obj, failAt) ==
    IF "Logo_Diameter" \in DOMAIN obj.props
    THEN LogoProxy_execute(d, obj, failAt)
    ELSE IF "LogoText_Diameter" \in DOMAIN obj.props
    THEN LogoTextProxy_execute(d, obj, failAt)
    ELSE [shape_set |-> FALSE, obj |-> obj, error |-> "none"]

\* doc.recompute(): the result objects are executed in the order of their
\* dependencies (x \in {e} names the value of e)
RECURSIVE RecomputeFrom(_, _, _)
RecomputeFrom(d, k, failAt) ==
    IF k > Len(d.results) THEN d
    ELSE CHOOSE after \in
            {RecomputeFrom(executed, k + 1, failAt) :
                executed \in
                    {[d EXCEPT !.results[k] =
                         Proxy_execute(d, d.results[k], failAt).obj]}} : TRUE

Recompute(d, failAt) ==
    CHOOSE after \in {RecomputeFrom(before, 1, failAt) : before \in {d}} :
        TRUE

\* DebossLogoTaskPanel.accept; edit is the index of the result object being
\* re-edited, 0 for a new logo
LogoPanel_store(d, edit, w, failAt, call) ==
        IF call.exc # "none"
        THEN [accepted |-> FALSE, exc |-> call.exc, dialog |-> "open",
              doc |-> d, heap |-> call.heap, trace |-> call.trace]
        ELSE
        LET new_shape == call.heap[call.result]
            is_pd_edit == edit # 0 /\ d.results[edit].BaseFeature # "None"
            params == [Logo_Diameter |-> w.diameter,
                       Logo_TotalDepth |-> w.total_depth,
                       Logo_MountainPct |-> w.mountain_pct,
                       Logo_TrailPct |-> w.trail_pct,
                       Logo_BoltPct |-> w.bolt_pct,
                       Logo_XOffset |-> w.x_offset,
                       Logo_YOffset |-> w.y_offset,
                       Logo_Rotation |-> w.rotation]
            origin == [Logo_FaceName |-> "Face1",
                       Logo_OriginalBody |->
                           IF d.base.inBody THEN "Body" ELSE d.base.Name]
            stored ==
                IF is_pd_edit
                THEN [d EXCEPT
                        !.results[edit].Shape = new_shape,
                        !.results[edit].props =
                            params @@ d.results[edit].props]
                ELSE IF d.base.inBody
                THEN [d EXCEPT
                        !.results = Append(d.results,
                            [Name |-> UniqueName(d, LogoDebossNames),
                             TypeId |-> "PartDesign::FeaturePython",
                             BaseFeature |-> d.base.Tip,
                             Shape |-> new_shape,
                             props |-> params @@ origin]),
                        !.base.Tip = UniqueName(d, LogoDebossNames)]
                ELSE [d EXCEPT
                        !.results = Append(
                            IF edit # 0 THEN RemoveAt(d.results, edit)
                            ELSE d.results,
                            [Name |-> UniqueName(
                                 IF edit # 0
                                 THEN [d EXCEPT !.results =
                                          RemoveAt(d.results, edit)]
                                 ELSE d, LogoDebossNames),
                             TypeId |-> "Part::FeaturePython",
                             BaseFeature |-> "None",
                             Shape |-> new_shape,
                             props |-> params @@ origin]),
                        !.base.Visibility = FALSE]
        IN  [accepted |-> TRUE, exc |-> "none", dialog |-> "closed",
             object |-> IF is_pd_edit THEN d.results[edit].Name
                        ELSE stored.results[Len(stored.results)].Name,
             doc |-> Recompute(stored, failAt), heap |-> call.heap,
             trace |-> call.trace]

DebossLogoTaskPanel_accept(d, edit, w, failAt) ==
    LogoPanel_store(d, edit, w, failAt,
        apply_logo(<<LogoBaseSolid(d.base.face)>>, 1, d.base.face,
                   [diameter |-> w.diameter,
                    total_depth |-> w.total_depth,
                    mountain_ratio |-> w.mountain_pct,
                    trail_ratio |-> w.trail_pct,
                    bolt_ratio |-> w.bolt_pct,
                    x_offset |-> w.x_offset,
                    y_offset |-> w.y_offset,
                    rotation |-> w.rotation], failAt))

\* ------------------------------------------------------------------------
\* Task panel of the logo+text command (logotext_command)
\* ------------------------------------------------------------------------
LogoTextDebossNames ==
    <<"LogoTextDeboss", "LogoTextDeboss001", "LogoTextDeboss002",
      "LogoTextDeboss003">>

LogoTextWidgets ==
    [diameter : {18}, total_depth : {8000}, mountain_pct : {55},
     trail_pct : {30}, bolt_pct : {15}, text_pct : {5, 100},
     x_offset : {0}, y_offset : {0}, rotation : {0, 90}]

\* _get_logotext_base_object: the object a panel opened for re-editing obj
\* works on
LogoText_get_base_object(d, obj) ==
    IF obj.BaseFeature # "None" THEN obj.BaseFeature
    ELSE IF obj.props.LogoText_OriginalBody # ""
            /\ (obj.props.LogoText_OriginalBody \in {d.base.Name, "Body"}
                \/ ResultIndex(d, obj.props.LogoText_OriginalBody) # 0)
    THEN obj.props.LogoText_OriginalBody
    ELSE "None"

\* the prefill dictionary built from the stored properties, as the spin
\* boxes hold it after _apply_prefill
LogoTextPrefill(obj) ==
    [diameter     |-> SpinBox(obj.props.LogoText_Diameter, 5, 100, 1),
     total_depth  |-> SpinBox(obj.props.LogoText_TotalDepth, 1000, 50000,
                              100),
     mountain_pct |-> SpinBox(obj.props.LogoText_MountainPct, 10, 90, 1),
     trail_pct    |-> SpinBox(obj.props.LogoText_TrailPct, 5, 80, 1),
     bolt_pct     |-> SpinBox(obj.props.LogoText_BoltPct, 5, 70, 1),
     text_pct     |-> SpinBox(obj.props.LogoText_TextPct, 5, 100, 1),
     x_offset     |-> SpinBox(obj.props.LogoText_XOffset, -500, 500, 1),
     y_offset     |-> SpinBox(obj.props.LogoText_YOffset, -500, 500, 1),
     rotation     |-> SpinBox(obj.props.LogoText_Rotation, -180, 180, 1)]

\* the keyword arguments accept passes to apply_logotext
LogoTextPanelKw(w) ==
    [diameter |-> w.diameter, total_depth |-> w.total_depth,
     mountain_ratio |-> w.mountain_pct, trail_ratio |-> w.trail_pct,
     bolt_ratio |-> w.bolt_pct, text_ratio |-> w.text_pct,
     x_offset |-> w.x_offset, y_offset |-> w.y_offset,
     rotation |-> w.rotation]

\* DebossLogoTextTaskPanel.accept after the orchestrator call
LogoTextPanel_store(d, body_obj, edit, w, failAt, call) ==
    IF call.exc # "none"
    THEN [accepted |-> FALSE, exc |-> call.exc, dialog |-> "open",
          doc |-> d, heap |-> call.heap, trace |-> call.trace]
    ELSE
    LET new_shape == call.heap[call.result]
        is_pd_edit == edit # 0
                      /\ d.results[edit].TypeId # "Part::FeaturePython"
        params == [LogoText_Diameter |-> w.diameter,
                   LogoText_TotalDepth |-> w.total_depth,
                   LogoText_MountainPct |-> w.mountain_pct,
                   LogoText_TrailPct |-> w.trail_pct,
                   LogoText_BoltPct |-> w.bolt_pct,
                   LogoText_TextPct |-> w.text_pct,
                   LogoText_XOffset |-> w.x_offset,
                   LogoText_YOffset |-> w.y_offset,
                   LogoText_Rotation |-> w.rotation]
        removed == IF edit # 0
                   THEN [d EXCEPT !.results = RemoveAt(d.results, edit)]
                   ELSE d
        stored ==
            IF is_pd_edit
            THEN [d EXCEPT !.results[edit].props =
                              params @@ d.results[edit].props]
            ELSE IF d.base.inBody
            THEN [d EXCEPT
                    !.results = Append(d.results,
                        [Name |-> UniqueName(d, LogoTextDebossNames),
                         TypeId |-> "PartDesign::FeatureSubtractivePython",
                         BaseFeature |-> d.base.Tip,
                         Shape |-> <<>>, AddSubShape |-> <<>>,
                         props |-> params @@
                             [LogoText_FaceName |-> "Face1",
                              LogoText_OriginalBody |-> "Body"]]),
                    !.base.Tip = UniqueName(d, LogoTextDebossNames)]
            ELSE [d EXCEPT
                    !.results = Append(removed.results,
                        [Name |-> UniqueName(removed, LogoTextDebossNames),
                         TypeId |-> "Part::FeaturePython",
                         BaseFeature |-> "None",
                         Shape |-> new_shape,
                         props |-> params @@
                             [LogoText_FaceName |-> "Face1",
                              LogoText_OriginalBody |-> body_obj]]),
                    !.base.Visibility = FALSE]
    IN  [accepted |-> TRUE, exc |-> "none", dialog |-> "closed",
         object |-> IF is_pd_edit THEN d.results[edit].Name
                    ELSE stored.results[Len(stored.results)].Name,
         doc |-> Recompute(stored, failAt), heap |-> call.heap,
         trace |-> call.trace]

DebossLogoTextTaskPanel_acceptHide(d, body_obj, edit, w, failAt) ==
    CHOOSE done \in
        {LogoTextPanel_store([d EXCEPT !.base.Visibility = FALSE], body_obj,
                             edit, w, failAt, call) :
            call \in {apply_logotext(<<ObjectShape(d, body_obj)>>, 1,
                                     d.base.face, LogoTextPanelKw(w),
                                     failAt)}} : TRUE

\* DebossLogoTextTaskPanel.accept; body_obj is the object the panel was
\* opened on, edit the index of the result being re-edited (0: none)
DebossLogoTextTaskPanel_accept(d, body_obj, edit, w, failAt) ==
    CHOOSE done \in
        {LogoTextPanel_store(d, body_obj, edit, w, failAt, call) :
            call \in {apply_logotext(<<ObjectShape(d, body_obj)>>, 1,
                                     d.base.face, LogoTextPanelKw(w),
                                     failAt)}} : TRUE

\* ------------------------------------------------------------------------
\* Task panel of the QR command (qr_command)
\*
\* The text of the URL field is a sequence of characters.  The encoding
\* library is a function of the text it is given: QREncode stands for it,
\* with one module row per character.
\* ------------------------------------------------------------------------
QRCodeNames(emboss) ==
    IF emboss
    THEN <<"QRCodeEmboss", "QRCodeEmboss001", "QRCodeEmboss002",
           "QRCodeEmboss003">>
    ELSE <<"QRCodeDeboss", "QRCodeDeboss001", "QRCodeDeboss002",
           "QRCodeDeboss003">>

_EC_KEYS == <<"L", "M", "Q", "H">>

\* str.strip()
RECURSIVE LStrip(_)
LStrip(text) ==
    IF text # <<>> /\ Head(text) = " " THEN LStrip(Tail(text)) ELSE text

RECURSIVE RStrip(_)
RStrip(text) ==
    IF text # <<>> /\ text[Len(text)] = " "
    THEN RStrip(SubSeq(text, 1, Len(text) - 1))
    ELSE text

Strip(text) == RStrip(LStrip(text))

UrlTexts == {<<>>, <<" ">>, <<"u">>, <<" ", "u">>, <<"u", "v">>, <<"v">>}

\* qr.get_matrix() of the library for the data it was given
QREncode(data) ==
    [r \in 1..Len(data) |-> [c \in 1..Len(data) |->
        data[((r + c) % Len(data)) + 1] = "u"]]

QRWidgets ==
    [url : UrlTexts, size : {20}, height : {50}, mode : {0, 1}, ec : {2},
     border : {2}, x_offset : {0}, y_offset : {0}]

\* the widgets after _apply_prefill with the stored properties
QRPrefill(obj) ==
    [url      |-> obj.props.QR_URL,
     size     |-> SpinBox(obj.props.QR_Size, 5, 200, 1),
     height   |-> SpinBox(obj.props.QR_Height, 10, 500, 1),
     mode     |-> IF obj.props.QR_Emboss THEN 0 ELSE 1,
     ec       |-> IF \E i \in 1..Len(_EC_KEYS) :
                        _EC_KEYS[i] = obj.props.QR_ErrorCorrection
                  THEN CHOOSE i \in 1..Len(_EC_KEYS) :
                        _EC_KEYS[i] = obj.props.QR_ErrorCorrection
                  ELSE 2,
     border   |-> SpinBox(obj.props.QR_Border, 0, 8, 1),
     x_offset |-> SpinBox(obj.props.QR_XOffset, -500, 500, 1),
     y_offset |-> SpinBox(obj.props.QR_YOffset, -500, 500, 1)]

\* the keyword arguments accept passes to apply_qr
QRPanelKw(w) ==
    [size |-> w.size, height |-> w.height, emboss |-> w.mode = 0,
     error_correction |-> _EC_KEYS[w.ec], border |-> w.border,
     x_offset |-> w.x_offset, y_offset |-> w.y_offset]

\* the object a panel opened for re-editing obj works on:
\* getObject(obj.QR_OriginalBody)
QR_get_base_object(d, obj) ==
    IF obj.props.QR_OriginalBody \in {d.base.Name, "Body"}
       \/ ResultIndex(d, obj.props.QR_OriginalBody) # 0
    THEN obj.props.QR_OriginalBody
    ELSE "None"

\* QRCodeTaskPanel.accept after the orchestrator call
QRPanel_store(d, body_obj, edit, w, failAt, call) ==
    IF call.exc = "ImportError"
    THEN [accepted |-> FALSE, exc |-> call.exc,
          message |-> "Missing Dependency", text |-> call.msg,
          dialog |-> "open",
          doc |-> d, heap |-> call.heap, trace |-> call.trace]
    ELSE IF call.exc # "none"
    THEN [accepted |-> FALSE, exc |-> call.exc,
          message |-> "QR Code Error", dialog |-> "open",
          doc |-> d, heap |-> call.heap, trace |-> call.trace]
    ELSE
    LET removed == IF edit # 0
                   THEN [d EXCEPT !.results = RemoveAt(d.results, edit)]
                   ELSE d
        stored ==
            [d EXCEPT
                !.results = Append(removed.results,
                    [Name |-> UniqueName(removed, QRCodeNames(w.mode = 0)),
                     TypeId |-> "Part::FeaturePython",
                     BaseFeature |-> "None",
                     Shape |-> call.heap[call.result],
                     props |-> [QR_URL |-> Strip(w.url),
                                QR_Size |-> w.size,
                                QR_Height |-> w.height,
                                QR_Emboss |-> w.mode = 0,
                                QR_ErrorCorrection |-> _EC_KEYS[w.ec],
                                QR_Border |-> w.border,
                                QR_XOffset |-> w.x_offset,
                                QR_YOffset |-> w.y_offset,
                                QR_FaceName |-> "Face1",
                                QR_OriginalBody |-> body_obj]]),
                !.base.Visibility = FALSE]
    IN  [accepted |-> TRUE, exc |-> "none", message |-> "none",
         dialog |-> "closed",
         object |-> stored.results[Len(stored.results)].Name,
         doc |-> Recompute(stored, failAt),
         heap |-> call.heap, trace |-> call.trace]

\* QRCodeTaskPanel.accept; available tells whether the encoding library
\* could be imported
QRCodeTaskPanel_accept(d, body_obj, edit, w, available, failAt) ==
    IF Strip(w.url) = <<>>
    THEN [accepted |-> FALSE, exc |-> "none",
          message |-> "Please enter a URL or text to encode.",
          dialog |-> "open", doc |-> d, heap |-> <<>>, trace |-> <<>>]
    ELSE QRPanel_store(d, body_obj, edit, w, failAt,
            apply_qr(<<QRBaseSolid(d.base.face, Len(Strip(w.url)))>>, 1,
                     d.base.face, Strip(w.url), QRPanelKw(w),
                     [available |-> available,
                      matrix |-> QREncode(Strip(w.url))],
                     failAt))

\* ------------------------------------------------------------------------
\* The program: a document with a selected face, on which the orchestrators
\* are called directly or through the task panel and the feature proxy
\* ------------------------------------------------------------------------
MaxFailAt == 4

MaxEncN == 2

TotalDepths == {0, 1, 8000}

RatioTriples == {<<55, 30, 15>>, <<0, 0, 0>>, <<150, 30, 15>>}

Offsets == {<<0, 0>>, <<2, 1>>}

LogoKw(td, r, off) ==
    [diameter |-> 18, total_depth |-> td, mountain_ratio |-> r[1],
     trail_ratio |-> r[2], bolt_ratio |-> r[3], x_offset |-> off[1],
     y_offset |-> off[2]]

LogoCalls ==
    {<<>>}
    \cup {LogoKw(td, r, off) :
            td \in TotalDepths, r \in RatioTriples, off \in Offsets}
    \cup {[rotation |-> 0] @@ LogoKw(td, r, <<0, 0>>) :
            td \in TotalDepths, r \in RatioTriples}

LogoTextCalls ==
    {<<>>}
    \cup {[text_ratio |-> t, rotation |-> rot] @@ LogoKw(td, r, off) :
            td \in TotalDepths, r \in RatioTriples, off \in Offsets,
            t \in {0, 100}, rot \in {0, 90, 180, -90}}

QRCalls ==
    {<<>>}
    \cup {[size |-> sz, height |-> hgt, emboss |-> e, x_offset |-> off[1],
           y_offset |-> off[2]] :
            sz \in {20, 30}, hgt \in {50}, e \in Booleans, off \in Offsets}

EncoderMatrices == UNION {SquareMatrices(n) : n \in 0..MaxEncN}

QRLibraries ==
    {[available |-> TRUE, matrix |-> m] : m \in EncoderMatrices}
    \cup {[available |-> FALSE, matrix |-> <<>>]}

Observed(call) == [f \in (DOMAIN call) \ {"heap", "trace", "doc"} |-> call[f]]

Init ==
    /\ op = "idle"
    /\ args = <<>>
    /\ ret = NoRet
    /\ heap = <<>>
    /\ trace = <<>>
    /\ doc \in Documents

ApplyLogo ==
    /\ op = "idle"
    /\ \E kw \in LogoCalls, failAt \in 0..MaxFailAt :
          \E call \in {apply_logo(<<LogoBaseSolid(doc.base.face)>>, 1,
                                  doc.base.face, kw, failAt)} :
              /\ op' = "apply_logo"
              /\ args' = [face |-> doc.base.face, kw |-> kw,
                          failAt |-> failAt]
              /\ ret' = Observed(call)
              /\ heap' = call.heap
              /\ trace' = call.trace
    /\ UNCHANGED doc

ApplyLogoText ==
    /\ op = "idle"
    /\ \E kw \in LogoTextCalls, failAt \in 0..(MaxFailAt + 1) :
          \E call \in {apply_logotext(<<LogoBaseSolid(doc.base.face)>>, 1,
                                      doc.base.face, kw, failAt)} :
              /\ op' = "apply_logotext"
              /\ args' = [face |-> doc.base.face, kw |-> kw,
                          failAt |-> failAt]
              /\ ret' = Observed(call)
              /\ heap' = call.heap
              /\ trace' = call.trace
    /\ UNCHANGED doc

ApplyQR ==
    /\ op = "idle"
    /\ \E kw \in QRCalls, lib \in QRLibraries, failAt \in 0..1 :
          \E call \in {apply_qr(
                          <<QRBaseSolid(doc.base.face, Len(lib.matrix))>>, 1,
                          doc.base.face, "https://example.com", kw, lib,
                          failAt)} :
              /\ op' = "apply_qr"
              /\ args' = [face |-> doc.base.face, kw |-> kw, lib |-> lib,
                          failAt |-> failAt]
              /\ ret' = Observed(call)
              /\ heap' = call.heap
              /\ trace' = call.trace
    /\ UNCHANGED doc

LogoPanelAccept ==
    /\ op = "idle"
    /\ \E w \in LogoWidgets, edit \in 0..Len(doc.results),
          failAt \in 0..MaxFailAt :
          \E done \in {DebossLogoTaskPanel_accept(doc, edit, w, failAt)} :
              /\ op' = "accept_logo"
              /\ args' = [face |-> doc.base.face, widgets |-> w,
                          edit |-> edit, failAt |-> failAt]
              /\ ret' = Observed(done)
              /\ heap' = done.heap
              /\ trace' = done.trace
              /\ doc' = done.doc

LogoRecompute ==
    /\ op = "idle"
    /\ \E k \in 1..Len(doc.results), failAt \in 0..MaxFailAt :
          \E done \in {LogoProxy_execute(doc, doc.results[k], failAt)} :
              /\ op' = "execute_logo"
              /\ args' = [face |-> doc.base.face, object |-> k,
                          failAt |-> failAt]
              /\ ret' = [exc |-> done.error, shape_set |-> done.shape_set]
              /\ heap' = <<LogoBaseSolid(doc.base.face)>>
              /\ trace' = <<>>
              /\ doc' = [doc EXCEPT !.results[k] = done.obj]

\* the call is over: control is back in the host application
Done ==
    /\ op # "idle"
    /\ op' = "idle"
    /\ args' = <<>>
    /\ ret' = NoRet
    /\ heap' = <<>>
    /\ trace' = <<>>
    /\ UNCHANGED doc

Next ==
    \/ ApplyLogo
    \/ ApplyLogoText
    \/ ApplyQR
    \/ LogoPanelAccept
    \/ LogoRecompute
    \/ Done

Spec == Init /\ [][Next]_vars

\* ------------------------------------------------------------------------
\* The task panels: a document on whose selected face results are created
\* with OK, and whose results are re-opened and accepted again
\* ------------------------------------------------------------------------
MaxResults == 1

\* the documents on whose selected face Activated opens a panel
PanelDocuments == {d \in Documents : is_planar(d.base.face)}

IsLogoResult(obj) == "Logo_Diameter" \in DOMAIN obj.props

IsLogoTextResult(obj) == "LogoText_Diameter" \in DOMAIN obj.props

IsQRResult(obj) == "QR_URL" \in DOMAIN obj.props

InitPanel ==
    /\ op = "idle"
    /\ args = <<>>
    /\ ret = NoRet
    /\ heap = <<>>
    /\ trace = <<>>
    /\ doc \in PanelDocuments

\* OK in a logo+text panel: opened by the command on the selected face
\* (edit = 0) or on the result object edit, with the values w in its boxes
LogoTextPanelAccept ==
    /\ op = "idle"
    /\ \E w \in LogoTextWidgets, edit \in 0..Len(doc.results),
          failAt \in 0..1 :
          /\ edit = 0 => Len(doc.results) < MaxResults
          /\ edit # 0 => /\ IsLogoTextResult(doc.results[edit])
                         /\ LogoText_get_base_object(doc, doc.results[edit])
                                # "None"
          /\ \E body_obj \in {IF edit = 0 THEN doc.base.Name
                               ELSE LogoText_get_base_object(doc,
                                        doc.results[edit])} :
               \E done \in {DebossLogoTextTaskPanel_accept(doc, body_obj,
                                 edit, w, failAt)} :
                  /\ op' = "accept_logotext"
                  /\ args' = [face |-> doc.base.face, widgets |-> w,
                              edit |-> edit, body_obj |-> body_obj,
                              failAt |-> failAt, before |-> doc]
                  /\ ret' = Observed(done)
                  /\ heap' = done.heap
                  /\ trace' = done.trace
                  /\ doc' = done.doc

\* OK in a QR panel
QRPanelAccept ==
    /\ op = "idle"
    /\ \E w \in QRWidgets, edit \in 0..Len(doc.results),
          available \in Booleans, failAt \in 0..1 :
          /\ edit = 0 => Len(doc.results) < MaxResults
          /\ edit # 0 => /\ IsQRResult(doc.results[edit])
                         /\ QR_get_base_object(doc, doc.results[edit])
                                # "None"
          /\ \E body_obj \in {IF edit = 0 THEN doc.base.Name
                               ELSE QR_get_base_object(doc,
                                        doc.results[edit])} :
               \E done \in {QRCodeTaskPanel_accept(doc, body_obj, edit, w,
                                 available, failAt)} :
                  /\ op' = "accept_qr"
                  /\ args' = [face |-> doc.base.face, widgets |-> w,
                              edit |-> edit, body_obj |-> body_obj,
                              available |-> available, failAt |-> failAt,
                              before |-> doc]
                  /\ ret' = Observed(done)
                  /\ heap' = done.heap
                  /\ trace' = done.trace
                  /\ doc' = done.doc

\* OK in a logo panel re-opened on a result object
LogoPanelReaccept ==
    /\ op = "idle"
    /\ \E w \in LogoWidgets, edit \in 1..Len(doc.results),
          failAt \in 0..1 :
          /\ IsLogoResult(doc.results[edit])
          /\ \E done \in {DebossLogoTaskPanel_accept(doc, edit, w, failAt)} :
                /\ op' = "accept_logo"
                /\ args' = [face |-> doc.base.face, widgets |-> w,
                            edit |-> edit, failAt |-> failAt, before |-> doc]
                /\ ret' = Observed(done)
                /\ heap' = done.heap
                /\ trace' = done.trace
                /\ doc' = done.doc

NextPanel ==
    \/ ApplyQR
    \/ LogoPanelReaccept
    \/ LogoTextPanelAccept
    \/ QRPanelAccept
    \/ Done

SpecPanel == InitPanel /\ [][NextPanel]_vars

\* ------------------------------------------------------------------------
\* Properties of the orchestrators
\* ------------------------------------------------------------------------
ApplyOps == {"apply_logo", "apply_logotext", "apply_qr"}

GeometryOps ==
    {"create_logo_faces", "create_logotext_faces", "cut2d", "extrude",
     "transform", "_create_qr_solid", "copy", "cut", "fuse", "cut:raise",
     "fuse:raise"}

BooleanOps == {"copy", "cut", "fuse", "cut:raise", "fuse:raise"}

Performed(ops) == \E k \in 1..Len(trace) : trace[k] \in ops

KernelRejected == Performed({"cut:raise", "fuse:raise"})

\* C4: LogoDeboss.apply, given the full parameter record with rotation (as
\* the task panel's accept and the feature's recompute pass it), succeeds
\* on a planar face with room for the logo and returns a result solid.
LogoApplyAcceptsRotation ==
    /\ (/\ op = "apply_logo"
        /\ "rotation" \in DOMAIN args.kw
        /\ IsPlanar(args.face) /\ args.face.room = "ample"
        /\ args.failAt = 0)
       => (ret.exc = "none" /\ "result" \in DOMAIN ret)
    /\ (/\ op = "accept_logo"
        /\ IsPlanar(args.face) /\ args.face.room = "ample"
        /\ args.failAt = 0)
       => (ret.exc = "none" /\ ret.accepted)
    /\ (/\ op = "execute_logo"
        /\ doc.results[args.object].BaseFeature # "None"
        /\ IsPlanar(args.face) /\ args.face.room = "ample"
        /\ args.failAt = 0)
       => (ret.exc = "none" /\ ret.shape_set)

\* C5: on every planar face, Forward or Reversed, the frame normal of each
\* orchestrator points away from the solid's interior, so that a deboss
\* volume extends into the body and an emboss volume out of it.
FrameNormalOutward ==
    (op \in ApplyOps /\ IsPlanar(args.face) /\ "frame" \in DOMAIN ret) =>
        /\ ret.frame.normal = Outward(args.face)
        /\ ret.mat.z = IF op = "apply_qr" /\ (args.kw @@ ApplyQRDefaults).emboss
                       THEN Outward(args.face)
                       ELSE Neg(Outward(args.face))

\* C6: on a face whose surface is not a plane, frame extraction yields the
\* NonPlanarFace error and apply aborts before any 2D shape, extrusion, QR
\* solid or boolean operation.
NonPlanarFaceAborts ==
    (/\ op \in ApplyOps
     /\ ~IsPlanar(args.face)
     /\ op = "apply_qr" => args.lib.available) =>
        /\ ret.exc = "ValueError"
        /\ "result" \notin DOMAIN ret
        /\ ~Performed(GeometryOps)

\* C7: for a module matrix without a True cell, the empty matrix included,
\* the rasterizer returns None and apply_qr fails with the empty-matrix
\* error, without copying, cutting or fusing the base solid and without a
\* result.
EmptyMatrixError ==
    (/\ op = "apply_qr"
     /\ args.lib.available
     /\ DarkCount(args.lib.matrix) = 0) =>
        /\ _create_qr_solid(args.lib.matrix,
                            (args.kw @@ ApplyQRDefaults).size,
                            (args.kw @@ ApplyQRDefaults).height,
                            DefaultOverlap) = None
        /\ ret.exc = "RuntimeError"
        /\ ret.msg = "QR matrix produced no dark modules."
        /\ "result" \notin DOMAIN ret
        /\ ~Performed(BooleanOps)

\* C9: when a cut or fuse step of the sequential boolean combination
\* fails, the apply call fails with the kernel's error and returns no
\* solid, so a result with only some of the layers never reaches the
\* caller.
BooleanFailureFatal ==
    (op \in ApplyOps /\ KernelRejected) =>
        /\ ret.exc = "OCCError"
        /\ "result" \notin DOMAIN ret

\* Witness of C9: the kernel rejected a cut of apply_logo after an earlier
\* cut of the same call had succeeded.
LaterCutRejected ==
    /\ op = "apply_logo"
    /\ \E k \in 2..Len(trace) : trace[k - 1] = "cut" /\ trace[k] = "cut:raise"
    /\ ret.exc = "OCCError"

\* the base solid as it was before the call
BaseBefore ==
    IF op = "apply_qr" THEN QRBaseSolid(args.face, Len(args.lib.matrix))
    ELSE LogoBaseSolid(args.face)

\* C10: apply_logo, apply_logotext and apply_qr leave the base solid as it
\* was before the call, whether the call succeeds or fails, and the solid
\* they return is another object than the base solid.
BaseSolidUntouched ==
    op \in ApplyOps =>
        /\ heap[1] = BaseBefore
        /\ ret.exc = "none" => ret.result # 1

\* Witness of C10: a successful apply_logo whose cuts removed material, and
\* the base solid is still flat.
BaseKeptAfterCut ==
    /\ op = "apply_logo"
    /\ ret.exc = "none"
    /\ \E c \in DOMAIN heap[ret.result] : heap[ret.result][c] < 0
    /\ \A c \in DOMAIN heap[1] : heap[1][c] = 0

\* ------------------------------------------------------------------------
\* QR relief: boolean mode, transform and module size
\* ------------------------------------------------------------------------
Occurrences(ops) == Cardinality({k \in 1..Len(trace) : trace[k] \in ops})

\* |a - b * sqrt(q)| is at most tol, for b >= 0
NearMultipleOfSqrt(a, b, q, tol) ==
    /\ a + tol >= 0
    /\ (IF a > tol THEN (a - tol) * (a - tol) ELSE 0) <= b * b * q
    /\ b * b * q <= (a + tol) * (a + tol)

\* t is the point center shifted by x along the unit vector of u and by y
\* along the unit vector of v, u and v being orthogonal: the shift has the
\* components x along u, y along v and none along the normal, up to the
\* rounding of 1/Milli
ShiftedAlong(t, center, u, v, normal, x, y) ==
    LET d == <<t[1] - Milli * center[1], t[2] - Milli * center[2],
               t[3] - Milli * center[3]>>
        S(w) == Abs(w[1]) + Abs(w[2]) + Abs(w[3])
        Sq(w) == w[1] * w[1] + w[2] * w[2] + w[3] * w[3]
        D(a, b) == a[1] * b[1] + a[2] * b[2] + a[3] * b[3]
        Sign(k) == IF k < 0 THEN -1 ELSE 1
    IN  /\ NearMultipleOfSqrt(Sign(x) * D(d, u), Milli * Abs(x), Sq(u), S(u))
        /\ NearMultipleOfSqrt(Sign(y) * D(d, v), Milli * Abs(y), Sq(v), S(v))
        /\ Abs(D(d, normal)) <= S(normal)
        /\ (Sq(u) = 1 /\ Sq(v) = 1) =>
               d = VAdd(VScale(u, Milli * x), VScale(v, Milli * y))

\* C11: apply_qr with emboss = true performs exactly one fuse and no cut
\* with local +Z mapped to +normal; with emboss = false exactly one cut and
\* no fuse with local +Z mapped to -normal; in both modes local X and Y map
\* to U and V and the translation is the placement origin (the face centre
\* shifted by the offsets along U and V).
QREmbossFuseDebossCut ==
    (op = "apply_qr" /\ ret.exc = "none") =>
        LET p == args.kw @@ ApplyQRDefaults
        IN  /\ Occurrences({"fuse", "fuse:raise"}) = IF p.emboss THEN 1 ELSE 0
            /\ Occurrences({"cut", "cut:raise"}) = IF p.emboss THEN 0 ELSE 1
            /\ ret.mat.z = IF p.emboss THEN ret.frame.normal
                           ELSE Neg(ret.frame.normal)
            /\ ret.mat.x = ret.frame.u_axis
            /\ ret.mat.y = ret.frame.v_axis
            /\ ShiftedAlong(ret.mat.t, args.face.CenterOfMass,
                            ret.frame.u_axis, ret.frame.v_axis,
                            ret.frame.normal, p.x_offset, p.y_offset)

\* Witness of C11: a successful deboss QR call with an offset placement
\* whose cut removed material from the body.
QRDebossPlacedOffCentre ==
    /\ op = "apply_qr"
    /\ ret.exc = "none"
    /\ ~(args.kw @@ ApplyQRDefaults).emboss
    /\ (args.kw @@ ApplyQRDefaults).x_offset # 0
    /\ ret.mat.t # VScale(args.face.CenterOfMass, Milli)
    /\ \E c \in DOMAIN heap[ret.result] : heap[ret.result][c] < 0

\* C12: a successful apply_qr returns, with the result solid,
\* module_size_mm = size / n for the side length n of the matrix the encoder
\* returned, and every rectangle of the QR solid is one such module high
\* and a whole number of such modules wide (rectangle coordinates are in
\* units of 1/(2n) mm).
ModuleSizeIsSizeOverN ==
    (op = "apply_qr" /\ ret.exc = "none") =>
        LET p == args.kw @@ ApplyQRDefaults
            n == Len(args.lib.matrix)
            ms == ret.module_size_mm
            rects == ret.solid.rects
        IN  /\ "result" \in DOMAIN ret
            /\ ms.den > 0
            /\ ms.num * n = p.size * ms.den
            /\ \A i \in 1..Len(rects) :
                  /\ (rects[i][4] - rects[i][2]) * ms.den = ms.num * 2 * n
                  /\ \E k \in 1..n :
                        (rects[i][3] - rects[i][1]) * ms.den
                            = k * ms.num * 2 * n

\* Witness of C12: a successful call with a size other than the default on
\* a matrix of side 2 or more, whose solid has a merged run.
ModuleSizeOfMergedRun ==
    /\ op = "apply_qr"
    /\ ret.exc = "none"
    /\ (args.kw @@ ApplyQRDefaults).size # ApplyQRDefaults.size
    /\ Len(args.lib.matrix) >= 2
    /\ ret.module_size_mm.den = Len(args.lib.matrix)
    /\ \E i \in 1..Len(ret.solid.rects) :
          ret.solid.rects[i][3] - ret.solid.rects[i][1]
              > ret.solid.rects[i][4] - ret.solid.rects[i][2]

\* ------------------------------------------------------------------------
\* Logo relief: removed volume, recess depths, thresholds, order of cuts
\* ------------------------------------------------------------------------
\* the parameters of the call, defaults filled in
LogoArgs ==
    IF op = "apply_logotext" THEN args.kw @@ ApplyLogoTextDefaults
    ELSE args.kw @@ ApplyLogoDefaults

RECURSIVE SumOver(_, _)
SumOver(f, S) ==
    IF S = {} THEN 0
    ELSE LET c == CHOOSE x \in S : TRUE
         IN  f[c] + SumOver(f, S \ {c})

\* material missing from the result under each cell of the base solid, in
\* units of 1e-6 mm along the normal; every region counts with unit area
Removed(before, after) ==
    [c \in DOMAIN before |->
        IF c \in DOMAIN after /\ after[c] < before[c]
        THEN before[c] - after[c] ELSE 0]

VolumeRemoved ==
    LET r == Removed(heap[1], heap[ret.result])
    IN  SumOver(r, DOMAIN r)

\* the cylinder with the logo diameter and height total_depth
CylinderVolume == Cardinality(CircleDisc) * LogoArgs.total_depth * 100

\* C13: for apply_logo with total_depth > 0 and every ratio in [0, 1], on
\* a planar face that contains the logo circle, the volume removed from the
\* base solid is greater than 0 and at most the volume of the cylinder with
\* the logo diameter and height total_depth.
RemovedVolumeWithinCylinder ==
    (/\ op = "apply_logo"
     /\ ret.exc = "none"
     /\ IsPlanar(args.face) /\ args.face.room = "ample"
     /\ LogoArgs.total_depth > 0
     /\ \A r \in {"mountain_ratio", "trail_ratio", "bolt_ratio"} :
            LogoArgs[r] \in 0..100) =>
        /\ VolumeRemoved > 0
        /\ VolumeRemoved <= CylinderVolume

\* the depth the relief is to have at region c of the logo plane: that of
\* the highest-priority shape that covers c, 0 outside the circle
DepthByPriority(c, faces, p) ==
    IF c \in faces.bolt THEN p.total_depth * p.bolt_ratio
    ELSE IF c \in faces.trail THEN p.total_depth * p.trail_ratio
    ELSE IF c \in faces.mountain THEN p.total_depth * p.mountain_ratio
    ELSE IF c \in faces.circle THEN p.total_depth * 100
    ELSE 0

\* C17: after apply_logo on a planar face, the recess at every point of the
\* logo footprint is as deep as the depth of the highest-priority shape
\* that covers the point (bolt, then trail, then mountain, then circle),
\* and the body is not cut outside the circle.  Layers that the threshold of
\* 1e-4 mm leaves out are not looked at: every layer of the call is deep
\* enough.
RecessDepthByPriority ==
    (/\ op = "apply_logo" /\ ret.exc = "none" /\ IsPlanar(args.face)
     /\ \A n \in DOMAIN ret.depths : ret.depths[n] >= DepthEpsilon) =>
        \A c \in DOMAIN heap[1] :
            heap[1][c] - heap[ret.result][c]
                = DepthByPriority(c, create_logo_faces(LogoArgs.diameter),
                                  LogoArgs)

LogoApplyOps == {"apply_logo", "apply_logotext"}

\* the call has only parameters the function knows, the frame of the face
\* can be computed, the text outline can be built, and the kernel rejected
\* no cut
NothingElseFails ==
    /\ DOMAIN args.kw \subseteq (IF op = "apply_logo" THEN ApplyLogoParams
                                 ELSE ApplyLogoTextParams)
    /\ Logo_compute_face_frame(args.face).exc = "none"
    /\ op = "apply_logotext" =>
          create_logotext_faces(LogoArgs.diameter).exc = "none"
    /\ ~KernelRejected

\* C18: apply_logo and apply_logotext reject no depth ratio: whatever the
\* ratios are, above 1 or with a higher-priority layer deeper than the
\* circle, the call raises nothing on their account, and every layer has
\* the depth total_depth times its own ratio (the circle total_depth).
RatiosNotValidated ==
    (op \in LogoApplyOps /\ NothingElseFails) =>
        /\ ret.exc = "none"
        /\ ret.depths.circle = LogoArgs.total_depth * 100
        /\ \A n \in (DOMAIN ret.depths) \ {"circle"} :
              \E r \in {"mountain_ratio", "trail_ratio", "bolt_ratio",
                        "text_ratio"} :
                  /\ r \in DOMAIN LogoArgs
                  /\ <<n, r>> \in {<<"mountain", "mountain_ratio">>,
                                   <<"trail", "trail_ratio">>,
                                   <<"bolt", "bolt_ratio">>,
                                   <<"text", "text_ratio">>}
                  /\ ret.depths[n] = LogoArgs.total_depth * LogoArgs[r]
        /\ \A i \in 1..Len(ret.cutting_solids) :
              ret.cutting_solids[i].zhi
                  = ret.depths[ret.cutting_solids[i].name]

\* Witness of C18: a successful apply_logo with a mountain ratio of 1.5,
\* whose mountain recess is deeper than the circle recess.
MountainDeeperThanCircle ==
    /\ op = "apply_logo"
    /\ ret.exc = "none"
    /\ LogoArgs.mountain_ratio = 150
    /\ ret.depths.mountain > ret.depths.circle
    /\ ret.depths.circle >= DepthEpsilon
    /\ heap[ret.result][2] = -ret.depths.mountain
    /\ heap[ret.result][1] = -ret.depths.circle

\* the layers of the call that are at least 1e-4 mm deep
DeepEnough == {n \in DOMAIN ret.depths : ret.depths[n] >= DepthEpsilon}

\* C19: in apply_logo and apply_logotext a layer is extruded and cut if and
\* only if its depth is at least 1e-4 mm: the cutting solids are the layers
\* that deep, there is one extrusion and one cut for each of them, a
\* shallower layer is left out without an error, and when every layer is
\* left out the call returns a copy of the base solid that equals it.
ThresholdDropsLayers ==
    /\ (op \in LogoApplyOps /\ ret.exc = "none") =>
          /\ {ret.cutting_solids[i].name :
                 i \in 1..Len(ret.cutting_solids)} = DeepEnough
          /\ Len(ret.cutting_solids) = Cardinality(DeepEnough)
          /\ Occurrences({"extrude"}) = Cardinality(DeepEnough)
          /\ Occurrences({"cut"}) = Cardinality(DeepEnough)
          /\ DeepEnough = {} =>
                /\ ret.result # 1
                /\ heap[ret.result] = heap[1]
                /\ Occurrences({"copy"}) = 1
    /\ (/\ op \in LogoApplyOps
        /\ NothingElseFails
        /\ LogoArgs.total_depth * 100 < DepthEpsilon) =>
          /\ ret.exc = "none"
          /\ DeepEnough = {}

\* Witness of C19: a successful apply_logo whose circle is exactly 1e-4 mm
\* deep and is cut, while the three shallower layers are left out.
OnlyCircleDeepEnough ==
    /\ op = "apply_logo"
    /\ ret.exc = "none"
    /\ ret.depths.circle = DepthEpsilon
    /\ \A n \in {"mountain", "trail", "bolt"} :
          ret.depths[n] > 0 /\ ret.depths[n] < DepthEpsilon
    /\ Occurrences({"cut"}) = 1
    /\ Len(ret.cutting_solids) = 1

\* the solid that the sequential cuts of the call give when its cutting
\* solids are applied to a copy of the base solid in the order perm, the
\* kernel accepting every cut as it did in the call
CutInOrder(perm) ==
    LET permuted == [i \in 1..Len(ret.cutting_solids) |->
                        ret.cutting_solids[perm[i]]]
        copy == ShapeCopy(<<heap[1]>>, 1)
        cut == CutLoop(copy.heap, copy.id, permuted, 1, 0, args.face, <<>>)
    IN  IF cut.exc # "none" THEN <<>> ELSE cut.heap[cut.result]

\* the cutting solids of the call under which region c of the plane lies
SolidsOver(c) ==
    {i \in 1..Len(ret.cutting_solids) : c \in ret.cutting_solids[i].foot}

\* the body has material under the cutting solids: they are extruded along
\* the axis of the surface, which on a planar face of Reversed orientation
\* points out of the body
MaterialUnderSolids ==
    ~(IsPlanar(args.face) /\ args.face.Orientation = "Reversed")

\* solid is the base solid with every region recessed to the depth of the
\* cutting solids that lie over it, and to no depth where none does: no
\* solid has this form when two cutting solids of different depths lie
\* over one region
RecessedByOwnLayer(solid) ==
    /\ DOMAIN solid = DOMAIN heap[1]
    /\ \A c \in DOMAIN heap[1] :
          IF SolidsOver(c) = {} \/ ~MaterialUnderSolids
          THEN solid[c] = heap[1][c]
          ELSE \A i \in SolidsOver(c) :
                  solid[c] = heap[1][c] - ret.cutting_solids[i].zhi

\* C20: the cutting solids of apply_logo and apply_logotext lie over
\* pairwise disjoint parts of the plane, and the solid the call returns
\* does not depend on the order of the sequential cuts: cutting the layers
\* of the call out of the base solid in any permutation of the order the
\* code uses gives the solid the call returned, which is the base solid
\* with every region recessed to the depth of its own layer.
CutOrderIrrelevant ==
    (op \in LogoApplyOps /\ ret.exc = "none") =>
        /\ \A i, j \in 1..Len(ret.cutting_solids) :
              i # j => ret.cutting_solids[i].foot
                          \cap ret.cutting_solids[j].foot = {}
        /\ RecessedByOwnLayer(heap[ret.result])
        /\ \A perm \in Permutations(1..Len(ret.cutting_solids)) :
              CutInOrder(perm) = heap[ret.result]

\* Witness of C20: a successful apply_logotext that cut all five layers,
\* the mountain deeper than the circle, and removed material under each.
FiveLayersCut ==
    /\ op = "apply_logotext"
    /\ ret.exc = "none"
    /\ Len(ret.cutting_solids) = 5
    /\ ret.depths.mountain > ret.depths.circle
    /\ \A i \in 1..5 :
          \E c \in ret.cutting_solids[i].foot :
              heap[ret.result][c] = -ret.cutting_solids[i].zhi

\* ------------------------------------------------------------------------
\* Re-editing a result
\* ------------------------------------------------------------------------
\* the parameter record a result object stores, as the keyword arguments of
\* its orchestrator
StoredLogoTextKw(obj) ==
    [diameter |-> obj.props.LogoText_Diameter,
     total_depth |-> obj.props.LogoText_TotalDepth,
     mountain_ratio |-> obj.props.LogoText_MountainPct,
     trail_ratio |-> obj.props.LogoText_TrailPct,
     bolt_ratio |-> obj.props.LogoText_BoltPct,
     text_ratio |-> obj.props.LogoText_TextPct,
     x_offset |-> obj.props.LogoText_XOffset,
     y_offset |-> obj.props.LogoText_YOffset,
     rotation |-> obj.props.LogoText_Rotation]

StoredQRKw(obj) ==
    [url |-> obj.props.QR_URL, size |-> obj.props.QR_Size,
     height |-> obj.props.QR_Height, emboss |-> obj.props.QR_Emboss,
     error_correction |-> obj.props.QR_ErrorCorrection,
     border |-> obj.props.QR_Border, x_offset |-> obj.props.QR_XOffset,
     y_offset |-> obj.props.QR_YOffset]

ResultNamed(d, name) == d.results[ResultIndex(d, name)]

\* the panel is re-opened on result k of the document and OK is pressed
\* with the prefilled values
ReacceptLogo(d, k) ==
    DebossLogoTaskPanel_accept(d, k, LogoPrefill(d.results[k]), 0)

ReacceptLogoText(d, k) ==
    DebossLogoTextTaskPanel_accept(d,
        LogoText_get_base_object(d, d.results[k]), k,
        LogoTextPrefill(d.results[k]), 0)

ReacceptQR(d, k) ==
    QRCodeTaskPanel_accept(d, QR_get_base_object(d, d.results[k]), k,
                           QRPrefill(d.results[k]), TRUE, 0)

\* the re-accept re succeeded and its result object has the parameters and
\* the shape of obj
Reproduces(re, obj) ==
    /\ re.accepted
    /\ ResultNamed(re.doc, re.object).props = obj.props
    /\ ResultNamed(re.doc, re.object).Shape = obj.Shape

LogoTextRoundTrip ==
    /\ (op = "accept_logotext" /\ ret.accepted) =>
          /\ StoredLogoTextKw(ResultNamed(doc, ret.object))
                = LogoTextPanelKw(args.widgets)
          /\ ResultNamed(doc, ret.object).props.LogoText_FaceName = "Face1"
    /\ \A k \in 1..Len(doc.results) :
          IsLogoTextResult(doc.results[k]) =>
              /\ LogoTextPanelKw(LogoTextPrefill(doc.results[k]))
                    = StoredLogoTextKw(doc.results[k])
              /\ LogoText_get_base_object(doc, doc.results[k]) # "None"
              /\ Reproduces(ReacceptLogoText(doc, k), doc.results[k])

QRRoundTrip ==
    /\ (op = "accept_qr" /\ ret.accepted) =>
          /\ StoredQRKw(ResultNamed(doc, ret.object))
                = [url |-> Strip(args.widgets.url)]
                  @@ QRPanelKw(args.widgets)
          /\ ResultNamed(doc, ret.object).props.QR_OriginalBody
                = args.body_obj
    /\ \A k \in 1..Len(doc.results) :
          IsQRResult(doc.results[k]) =>
              /\ [url |-> Strip(QRPrefill(doc.results[k]).url)]
                  @@ QRPanelKw(QRPrefill(doc.results[k]))
                    = StoredQRKw(doc.results[k])
              /\ QR_get_base_object(doc, doc.results[k]) # "None"
              /\ Reproduces(ReacceptQR(doc, k), doc.results[k])

\* OK was pressed in a logo panel re-opened on a result, with the prefilled
\* values in its boxes and a kernel that rejects nothing
LogoRoundTrip ==
    (/\ op = "accept_logo"
     /\ args.edit # 0
     /\ args.widgets = LogoPrefill(args.before.results[args.edit])
     /\ args.failAt = 0) =>
        /\ ret = Observed(ReacceptLogo(args.before, args.edit))
        /\ Reproduces([accepted |-> ret.accepted, doc |-> doc,
                       object |-> args.before.results[args.edit].Name],
                      args.before.results[args.edit])

\* C14: for each result type (logo, logo+text, QR) the parameters a result
\* stores after a successful accept are the values passed to the
\* orchestrator, re-opening the result prefills the panel with the stored
\* values, and pressing OK without a change succeeds and reproduces a
\* result with the same parameters and an equal shape.
ReEditRoundTrip == LogoRoundTrip /\ LogoTextRoundTrip /\ QRRoundTrip

\* C15: when the QR encoding library is unavailable, apply_qr (and with it
\* generate_qr_matrix) fails with the ImportError that carries the install
\* guidance before any matrix, geometry or boolean operation is made, and
\* OK in the QR panel returns False with the document as it was.
MissingDependencyAborts ==
    /\ (op = "apply_qr" /\ ~args.lib.available) =>
          /\ ret.exc = "ImportError"
          /\ ret.msg = InstallGuidance
          /\ trace = <<>>
          /\ heap = <<QRBaseSolid(args.face, Len(args.lib.matrix))>>
    /\ (op = "accept_qr" /\ ~args.available) =>
          /\ ~ret.accepted
          /\ doc = args.before
          /\ trace = <<>>
          /\ Strip(args.widgets.url) # <<>> =>
                /\ ret.exc = "ImportError"
                /\ ret.message = "Missing Dependency"
                /\ ret.text = InstallGuidance

QRPanelWithoutLibrary ==
    /\ op = "accept_qr"
    /\ ~args.available
    /\ Strip(args.widgets.url) # <<>>
    /\ args.edit # 0
    /\ ret.exc = "ImportError"
    /\ Len(doc.results) = 1

\* ------------------------------------------------------------------------
\* Properties of the face frame
\* ------------------------------------------------------------------------
Dot(a, b) == a[1] * b[1] + a[2] * b[2] + a[3] * b[3]

WorldAxes == <<(<<1, 0, 0>>), (<<0, 1, 0>>), (<<0, 0, 1>>)>>

\* the normal the frame of the call was computed from
FrameNormal ==
    IF op = "logo_frame" THEN LogoFaceNormal(args) ELSE NormalAt(args)

\* the first of X, Y, Z among the axes on which n has its smallest
\* absolute component
LeastParallelAxis(n) ==
    WorldAxes[CHOOSE i \in 1..3 :
        /\ \A j \in 1..3 : Abs(n[i]) <= Abs(n[j])
        /\ \A j \in 1..(i - 1) : Abs(n[j]) > Abs(n[i])]

\* C16: for every non-zero normal the seed is the world axis of the smallest
\* absolute component (ties X, then Y, then Z) and is not parallel to the
\* normal; U = normal x seed and V = normal x U are non-zero; U, V and the
\* normal are pairwise orthogonal, and U x V points along the normal.
FrameIsRightHanded ==
    (op \in {"logo_frame", "qr_frame"} /\ FrameNormal # ZeroVector) =>
        /\ Seed(FrameNormal) = LeastParallelAxis(FrameNormal)
        /\ Cross(FrameNormal, Seed(FrameNormal)) # ZeroVector
        /\ ret.exc = "none"
        /\ ret.u_axis # ZeroVector
        /\ ret.v_axis # ZeroVector
        /\ ret.u_axis = Normalize(Cross(FrameNormal, Seed(FrameNormal)))
        /\ ret.v_axis = Normalize(Cross(FrameNormal, ret.u_axis))
        /\ Dot(ret.u_axis, ret.v_axis) = 0
        /\ Dot(ret.u_axis, ret.normal) = 0
        /\ Dot(ret.v_axis, ret.normal) = 0
        /\ Normalize(Cross(ret.u_axis, ret.v_axis)) = Normalize(FrameNormal)
        /\ Normalize(ret.normal) = Normalize(FrameNormal)

FrameOfTiedNormal ==
    /\ op = "qr_frame"
    /\ args.midNormal = <<1, -1, 2>>
    /\ args.Orientation = "Reversed"
    /\ ret.exc = "none"
    /\ ret.u_axis = <<0, -2, -1>>

\* ------------------------------------------------------------------------
\* Rotation of the logo+text frame
\* ------------------------------------------------------------------------
\* C21: in apply_logotext U and V are rotated together about the normal by
\* the rotation angle before the offset is applied: U_rot = U cos + V sin,
\* V_rot = -U sin + V cos, the placement is the face centre plus
\* x_offset * U_rot + y_offset * V_rot, U_rot and V_rot are orthogonal to
\* each other and to the normal, U_rot x V_rot = U x V, and a rotation of 0
\* leaves the frame as _compute_face_frame gave it.
RotationTurnsUAndV ==
    (op = "apply_logotext" /\ "frame" \in DOMAIN ret) =>
        LET p == args.kw @@ ApplyLogoTextDefaults
            frame0 == Logo_compute_face_frame(args.face)
            c == CosDeg(p.rotation)
            sn == SinDeg(p.rotation)
        IN  /\ ret.frame.u_axis = VAdd(VScale(frame0.u_axis, c),
                                       VScale(frame0.v_axis, sn))
            /\ ret.frame.v_axis = VAdd(VScale(frame0.u_axis, -sn),
                                       VScale(frame0.v_axis, c))
            /\ ret.frame.normal = frame0.normal
            /\ ret.mat.x = ret.frame.u_axis
            /\ ret.mat.y = ret.frame.v_axis
            /\ ShiftedAlong(ret.mat.t, args.face.CenterOfMass,
                            ret.frame.u_axis, ret.frame.v_axis,
                            ret.frame.normal, p.x_offset, p.y_offset)
            /\ Dot(ret.frame.u_axis, ret.frame.v_axis) = 0
            /\ Dot(ret.frame.u_axis, ret.frame.normal) = 0
            /\ Dot(ret.frame.v_axis, ret.frame.normal) = 0
            /\ Cross(ret.frame.u_axis, ret.frame.v_axis)
                  = Cross(frame0.u_axis, frame0.v_axis)
            /\ p.rotation = 0 => ret.frame = frame0

\* Witness of C21: a successful apply_logotext turned by a quarter turn and
\* placed off centre, so that the offset runs along the rotated axes.
QuarterTurnOffCentre ==
    /\ op = "apply_logotext"
    /\ ret.exc = "none"
    /\ (args.kw @@ ApplyLogoTextDefaults).rotation = 90
    /\ (args.kw @@ ApplyLogoTextDefaults).x_offset = 2
    /\ ret.frame.u_axis = Logo_compute_face_frame(args.face).v_axis
    /\ ret.mat.t # Placement(args.face.CenterOfMass,
                             Logo_compute_face_frame(args.face).u_axis,
                             Logo_compute_face_frame(args.face).v_axis, 2, 1)

\* ------------------------------------------------------------------------
\* QR solid: extent along local Z, rectangles of the runs
\* ------------------------------------------------------------------------
\* C22: the compound solid built by _create_qr_solid occupies local Z from
\* -overlap to height + overlap, for every height > 0.
QRSolidUpToHeightPlusOverlap ==
    (op = "_create_qr_solid" /\ ret.value = "solid") =>
        /\ ret.zlo = -args.overlap
        /\ ret.zhi = args.height + args.overlap

\* C22 as the code has it: the compound solid occupies local Z from
\* -overlap to height, its thickness being height + overlap, for every
\* height > 0.
QRSolidFromOverlapToHeight ==
    (op = "_create_qr_solid" /\ ret.value = "solid") =>
        /\ ret.zlo = -args.overlap
        /\ ret.zhi = args.height
        /\ ret.zhi - ret.zlo = args.height + args.overlap

\* Witness of C22: a solid was built with a height other than the overlap.
QRSolidOfHeightTwo ==
    /\ op = "_create_qr_solid"
    /\ ret.value = "solid"
    /\ args.height = 2
    /\ args.overlap = 1
    /\ ret.zlo = -1
    /\ ret.zhi = 2

\* the maximal horizontal runs of True cells of a matrix: row r, columns
\* a..b (0-based), bounded on both sides by a False cell or the edge
MaximalRuns(matrix) ==
    LET n == Len(matrix)
    IN  {run \in (0..(n - 1)) \X (0..(n - 1)) \X (0..(n - 1)) :
            /\ run[2] <= run[3]
            /\ \A c \in run[2]..run[3] : matrix[run[1] + 1][c + 1]
            /\ run[2] = 0 \/ ~matrix[run[1] + 1][run[2]]
            /\ run[3] = n - 1 \/ ~matrix[run[1] + 1][run[3] + 2]}

\* C23: the rasterizer emits exactly one rectangle per maximal horizontal
\* run of True cells; the rectangle of the run a..b of row r spans X from
\* -size/2 + a * module_size to -size/2 + (b + 1) * module_size and Y from
\* size/2 - (r + 1) * module_size to size/2 - r * module_size; two
\* rectangles of one row neither touch nor overlap, every rectangle is one
\* row high and lies inside the size x size square centred on the origin.
OneRectPerMaximalRun ==
    op = "rects" =>
        LET n == Len(args.matrix)
            half == Half(n, args.qr_size)
            ms == ModuleSize(n, args.qr_size)
            rects == ret.rects
            RectOf(run) == <<-half + run[2] * ms,
                             half - (run[1] + 1) * ms,
                             -half + (run[3] + 1) * ms,
                             half - run[1] * ms>>
        IN  /\ {rects[i] : i \in 1..Len(rects)}
                  = {RectOf(run) : run \in MaximalRuns(args.matrix)}
            /\ Len(rects) = Cardinality(MaximalRuns(args.matrix))
            /\ \A i \in 1..Len(rects) :
                  /\ rects[i][4] - rects[i][2] = ms
                  /\ \E r \in 0..(n - 1) : rects[i][4] = half - r * ms
                  /\ rects[i][1] < rects[i][3]
                  /\ -half <= rects[i][1] /\ rects[i][3] <= half
                  /\ -half <= rects[i][2] /\ rects[i][4] <= half
            /\ \A i \in 1..Len(rects) : \A j \in 1..Len(rects) :
                  (i # j /\ rects[i][2] = rects[j][2]) =>
                      \/ rects[i][3] < rects[j][1]
                      \/ rects[j][3] < rects[i][1]

\* Witness of C23: a matrix with a row of two runs and a row with a run of
\* two cells or more was rasterized.
TwoRunsInARow ==
    /\ op = "rects"
    /\ \E i \in 1..Len(ret.rects) : \E j \in 1..Len(ret.rects) :
          i # j /\ ret.rects[i][2] = ret.rects[j][2]
    /\ \E i \in 1..Len(ret.rects) :
          ret.rects[i][3] - ret.rects[i][1]
              > ret.rects[i][4] - ret.rects[i][2]

\* ------------------------------------------------------------------------
\* Stroke buffering (logo_geometry._buffer_path)
\*
\* Lengths and coordinates are fixed-point numbers in 1/Fix units, unit
\* vectors and the sines and cosines of the cap angles are rounded to
\* 1/Fix. Cap angles are counted in eighths of a half turn (pi / 8).
\* ------------------------------------------------------------------------
Fix == 100

\* a * b of two fixed-point numbers, rounded to the nearest 1/Fix
MulFix(a, b) ==
    IF a * b >= 0 THEN (2 * a * b + Fix) \div (2 * Fix)
    ELSE -((2 * (-(a * b)) + Fix) \div (2 * Fix))

\* math.hypot(dx, dy) is zero exactly when both differences are zero
HypotIsZero(dx, dy) == dx = 0 /\ dy = 0

\* |a| / hypot(dx, dy), rounded to the nearest 1/Fix
UnitMagnitude(a, dx, dy) ==
    LET q == dx * dx + dy * dy
    IN  CHOOSE u \in 0..Fix :
           /\ u = 0 \/ (2 * u - 1) * (2 * u - 1) * q <= 4 * a * a * Fix * Fix
           /\ 4 * a * a * Fix * Fix < (2 * u + 1) * (2 * u + 1) * q

\* (dx / length, dy / length) for length = math.hypot(dx, dy) > 0
\* (the quotient does not change when both differences are divided by
\* their greatest common divisor, which keeps the squares small)
Unit(dx, dy) ==
    LET g == GCD(Abs(dx), Abs(dy))
    IN  <<(IF dx < 0 THEN -1 ELSE 1)
              * UnitMagnitude(Abs(dx) \div g, dx \div g, dy \div g),
          (IF dy < 0 THEN -1 ELSE 1)
              * UnitMagnitude(Abs(dy) \div g, dx \div g, dy \div g)>>

\* math.sin and math.cos of k * pi / 8
SinTable == <<0, 38, 71, 92, 100, 92, 71, 38>>

Sin8(k) ==
    LET r == k % 16
    IN  IF r < 8 THEN SinTable[r + 1] ELSE -SinTable[r - 8 + 1]

Cos8(k) == Sin8(k + 4)

\* the tangent differences of point i (1-based) of the centerline: forward
\* at the first point, backward at the last, central in between
Tangent(points_2d, i) ==
    LET n == Len(points_2d)
        a == IF i = 1 THEN 1 ELSE IF i = n THEN n - 1 ELSE i - 1
        b == IF i = 1 THEN 2 ELSE IF i = n THEN n ELSE i + 1
    IN  <<points_2d[b][1] - points_2d[a][1], points_2d[b][2] - points_2d[a][2]>>

\* the loop over the points: a point with a zero tangent is skipped, any
\* other point adds one left-offset and one right-offset point
RECURSIVE OffsetLoop(_, _, _, _, _)
OffsetLoop(points_2d, half_width, i, left, right) ==
    IF i > Len(points_2d) THEN [left |-> left, right |-> right]
    ELSE LET d == Tangent(points_2d, i)
         IN  IF HypotIsZero(d[1], d[2])
             THEN OffsetLoop(points_2d, half_width, i + 1, left, right)
             ELSE LET u == Unit(d[1], d[2])
                      nx == MulFix(-u[2], half_width)
                      ny == MulFix(u[1], half_width)
                      p == points_2d[i]
                  IN  OffsetLoop(points_2d, half_width, i + 1,
                                 Append(left, <<p[1] + nx, p[2] + ny>>),
                                 Append(right, <<p[1] - nx, p[2] - ny>>))

\* one cap vertex: centre p, unit direction u, angle k * pi / 8
CapPoint(p, u, half_width, k) ==
    <<p[1] + MulFix(half_width, MulFix(u[1], Cos8(k)) + MulFix(u[2], Sin8(k))),
      p[2] + MulFix(half_width, MulFix(u[2], Cos8(k)) - MulFix(u[1], Sin8(k)))>>

\* the end cap: angles -pi/2 + pi * i / cap_segments, i = 1..cap_segments-1
EndCap(p, u, half_width, cap_segments) ==
    [i \in 1..(cap_segments - 1) |->
        CapPoint(p, u, half_width, -4 + (8 * i) \div cap_segments)]

\* the start cap: angles pi/2 + pi * i / cap_segments
StartCap(p, u, half_width, cap_segments) ==
    [i \in 1..(cap_segments - 1) |->
        CapPoint(p, u, half_width, 4 + (8 * i) \div cap_segments)]

Reversed(s) == [i \in 1..Len(s) |-> s[Len(s) + 1 - i]]

AssembleForward(left, end_cap, right, start_cap) ==
    left \o end_cap \o right \o start_cap

\* polygon = left + end_cap + list(reversed(right)) + start_cap
Assemble(left, end_cap, right, start_cap) ==
    left \o end_cap \o Reversed(right) \o start_cap

\* the caps and the assembly, once the offset points are known; the two
\* normalisations divide by the length of the last and of the first segment
BufferCaps(points_2d, half_width, cap_segments, offsets) ==
    LET n == Len(points_2d)
        end == <<points_2d[n][1] - points_2d[n - 1][1],
                 points_2d[n][2] - points_2d[n - 1][2]>>
        st == <<points_2d[2][1] - points_2d[1][1],
                points_2d[2][2] - points_2d[1][2]>>
    IN  IF HypotIsZero(end[1], end[2])
        THEN [exc |-> "ZeroDivisionError", at |-> "end_len"]
        ELSE IF HypotIsZero(st[1], st[2])
        THEN [exc |-> "ZeroDivisionError", at |-> "st_len"]
        ELSE [exc |-> "none",
              left |-> offsets.left,
              right |-> offsets.right,
              end_cap |-> EndCap(points_2d[n], Unit(end[1], end[2]),
                                 half_width, cap_segments),
              start_cap |-> StartCap(points_2d[1], Unit(st[1], st[2]),
                                     half_width, cap_segments),
              polygon |->
                  Assemble(offsets.left,
                           EndCap(points_2d[n], Unit(end[1], end[2]),
                                  half_width, cap_segments),
                           offsets.right,
                           StartCap(points_2d[1], Unit(st[1], st[2]),
                                    half_width, cap_segments))]

\* _buffer_path: the closed outline of the stroke of an open polyline
_buffer_path(points_2d, half_width, cap_segments) ==
    IF Len(points_2d) < 2
    THEN [exc |-> "none", left |-> <<>>, right |-> <<>>, end_cap |-> <<>>,
          start_cap |-> <<>>, polygon |-> <<>>]
    ELSE BufferCaps(points_2d, half_width, cap_segments,
                    OffsetLoop(points_2d, half_width, 1, <<>>, <<>>))

\* ------------------------------------------------------------------------
\* Specification of stroke buffering as a function of the centerline
\* ------------------------------------------------------------------------
MaxPoints == 3
MaxCoord == 2

\* centerline points on a grid of whole units
GridPoints == {<<x * Fix, y * Fix>> : x \in 0..MaxCoord, y \in 0..1}

RECURSIVE CenterlinesOfLen(_)
CenterlinesOfLen(n) ==
    IF n = 0 THEN {<<>>}
    ELSE {Append(c, p) : c \in CenterlinesOfLen(n - 1), p \in GridPoints}

Centerlines == UNION {CenterlinesOfLen(n) : n \in 0..MaxPoints}

\* half of the scaled stroke widths; the number of segments of a cap
HalfWidths == {50, 125}
CapSegments == {2, 4, 8}

InitStroke ==
    /\ op = "centerline"
    /\ args \in [points_2d : Centerlines, half_width : HalfWidths,
                 cap_segments : CapSegments]
    /\ ret = NoRet
    /\ heap = <<>>
    /\ trace = <<>>
    /\ doc = NoDoc

BufferPath ==
    /\ op = "centerline"
    /\ op' = "_buffer_path"
    /\ ret' = _buffer_path(args.points_2d, args.half_width, args.cap_segments)
    /\ UNCHANGED <<args, heap, trace, doc>>

NextStroke == BufferPath

SpecStroke == InitStroke /\ [][NextStroke]_vars

\* C24: for every centerline of at least 2 points, coincident consecutive
\* points included (also at the first or the last segment), stroke
\* buffering completes without a division by zero.
BufferingCompletes ==
    (op = "_buffer_path" /\ Len(args.points_2d) >= 2) =>
        ret.exc # "ZeroDivisionError"

NoDegenerateTangent(points_2d) ==
    \A i \in 1..Len(points_2d) :
        ~HypotIsZero(Tangent(points_2d, i)[1], Tangent(points_2d, i)[2])

\* the side of vertex v seen from p along direction d: positive on the
\* left (the counter-clockwise normal), negative on the right
SideOf(v, p, d) == (v[2] - p[2]) * d[1] - (v[1] - p[1]) * d[2]

\* how far vertex v lies ahead of p along direction d (negative: behind)
AheadOf(v, p, d) == (v[1] - p[1]) * d[1] + (v[2] - p[2]) * d[2]

\* vertex v is at distance half_width of p, up to the rounding of 1/Fix
AtHalfWidth(v, p, half_width) ==
    LET q == (v[1] - p[1]) * (v[1] - p[1]) + (v[2] - p[2]) * (v[2] - p[2])
    IN  (half_width - 2) * (half_width - 2) <= q
            /\ q <= (half_width + 2) * (half_width + 2)

\* C25: for a centerline of n >= 2 points with no degenerate tangent the
\* outline has 2n + 2 * (cap_segments - 1) vertices in the order left-offset
\* points (forward), end cap, right-offset points (reversed), start cap.
\* The end cap lies ahead of the last point and runs from the left side to
\* the right side, the start cap lies behind the first point and runs from
\* the right side to the left side (the single vertex of a cap of two
\* segments sits on the axis of the segment, up to rounding, and is on
\* neither side), and the first vertex is not repeated at the end.
StrokeOutlineOrder ==
    (/\ op = "_buffer_path"
     /\ Len(args.points_2d) >= 2
     /\ NoDegenerateTangent(args.points_2d)) =>
        LET pts == args.points_2d
            n == Len(pts)
            c == args.cap_segments
            hw == args.half_width
            end == Tangent(pts, n)
            st == Tangent(pts, 1)
        IN  /\ ret.exc = "none"
            /\ Len(ret.polygon) = 2 * n + 2 * (c - 1)
            /\ \A i \in 1..n :
                  /\ SideOf(ret.polygon[i], pts[i], Tangent(pts, i)) > 0
                  /\ AtHalfWidth(ret.polygon[i], pts[i], hw)
            /\ \A k \in 1..(c - 1) :
                  /\ AheadOf(ret.polygon[n + k], pts[n], end) > 0
                  /\ AtHalfWidth(ret.polygon[n + k], pts[n], hw)
            /\ \A k \in 1..(c - 2) :
                  SideOf(ret.polygon[n + k], pts[n], end)
                      > SideOf(ret.polygon[n + k + 1], pts[n], end)
            /\ c > 2 => /\ SideOf(ret.polygon[n + 1], pts[n], end) > 0
                        /\ SideOf(ret.polygon[n + c - 1], pts[n], end) < 0
            /\ \A i \in 1..n :
                  LET v == ret.polygon[n + c - 1 + i]
                      j == n + 1 - i
                  IN  /\ SideOf(v, pts[j], Tangent(pts, j)) < 0
                      /\ AtHalfWidth(v, pts[j], hw)
                      /\ v[1] + ret.polygon[j][1] = 2 * pts[j][1]
                      /\ v[2] + ret.polygon[j][2] = 2 * pts[j][2]
            /\ \A k \in 1..(c - 1) :
                  /\ AheadOf(ret.polygon[2 * n + c - 1 + k], pts[1], st) < 0
                  /\ AtHalfWidth(ret.polygon[2 * n + c - 1 + k], pts[1], hw)
            /\ \A k \in 1..(c - 2) :
                  SideOf(ret.polygon[2 * n + c - 1 + k], pts[1], st)
                      < SideOf(ret.polygon[2 * n + c + k], pts[1], st)
            /\ c > 2 => /\ SideOf(ret.polygon[2 * n + c], pts[1], st) < 0
                        /\ SideOf(ret.polygon[2 * n + 2 * c - 2], pts[1], st) > 0
            /\ ret.polygon[1] # ret.polygon[Len(ret.polygon)]

\* Witness of C25: a bent centerline of three points was buffered with caps
\* of eight segments, giving an outline of 20 vertices.
BentStrokeBuffered ==
    /\ op = "_buffer_path"
    /\ Len(args.points_2d) = 3
    /\ NoDegenerateTangent(args.points_2d)
    /\ SideOf(args.points_2d[3], args.points_2d[1], Tangent(args.points_2d, 1)) # 0
    /\ args.cap_segments = 8
    /\ ret.exc = "none"
    /\ Len(ret.polygon) = 20

\* ------------------------------------------------------------------------
\* Layout of the text beside the logo (logotext_geometry.create_logotext_faces)
\*
\* Plane coordinates are counted in 1e-4 of the unit of the diameter: the
\* design coordinate X in tenths placed at cap height 0.55 * diameter is
\* X * 55 * diameter.
\* ------------------------------------------------------------------------
MinOf(S) == CHOOSE x \in S : \A y \in S : x <= y

MaxOf(S) == CHOOSE x \in S : \A y \in S : y <= x

\* the vertices of the outer polygons of the placed glyphs
ShapeVertices(text_shape) ==
    UNION {UNION {{text_shape.glyphs[g].outers[k][v] :
                        v \in 1..Len(text_shape.glyphs[g].outers[k])} :
                    k \in 1..Len(text_shape.glyphs[g].outers)} :
             g \in 1..Len(text_shape.glyphs)}

\* text_shape.BoundBox as <<XMin, YMin, XMax, YMax>>
BoundBox(text_shape) ==
    LET vs == ShapeVertices(text_shape)
    IN  <<MinOf({v[1] : v \in vs}), MinOf({v[2] : v \in vs}),
          MaxOf({v[1] : v \in vs}), MaxOf({v[2] : v \in vs})>>

\* the bounding box of the circle face: radius diameter / 2 about the origin
CircleBoundBox(diameter) ==
    <<-(5000 * diameter), -(5000 * diameter), 5000 * diameter, 5000 * diameter>>

text_x_startNoRadius(diameter) == 2300 * diameter

\* gap = diameter * 0.23; text_x_start = diameter / 2.0 + gap
text_x_start(diameter) == 5000 * diameter + 2300 * diameter

\* the text of create_logotext_faces after text_shape.translate
PlacedText(diameter, text_shape) ==
    LET bb == BoundBox(text_shape)
        dy2 == -(bb[2] + bb[4])
        tx == text_x_start(diameter)
    IN  [exc |-> "none",
         circle |-> CircleBoundBox(diameter),
         text_x_start |-> tx,
         dy |-> [num |-> dy2, den |-> 2],
         text2 |-> <<2 * (bb[1] + tx), 2 * bb[2] + dy2,
                     2 * (bb[3] + tx), 2 * bb[4] + dy2>>]

\* create_logotext_faces: where the text lies relative to the circle; the
\* bounding box of the translated text is given doubled (text2), the shift
\* dy being half of an integer
LogoTextLayout(diameter) ==
    LET text_shape == _create_text_shape(TrailCurrentText, diameter * 55)
    IN  IF text_shape.exc # "none" THEN text_shape
        ELSE PlacedText(diameter, text_shape)

\* ------------------------------------------------------------------------
\* Specification of the logo + text layout as a function of the diameter
\* ------------------------------------------------------------------------
MaxDiameter == 60

InitLayout ==
    /\ op = "diameter"
    /\ args \in [diameter : 1..MaxDiameter]
    /\ ret = NoRet
    /\ heap = <<>>
    /\ trace = <<>>
    /\ doc = NoDoc

CreateLogoTextFaces ==
    /\ op = "diameter"
    /\ op' = "create_logotext_faces"
    /\ ret' = LogoTextLayout(args.diameter)
    /\ UNCHANGED <<args, heap, trace, doc>>

NextLayout == CreateLogoTextFaces

SpecLayout == InitLayout /\ [][NextLayout]_vars

\* C26: for every diameter > 0 the left edge of the text is at
\* x = diameter / 2 + 0.23 * diameter, to the right of the rightmost point of
\* the circle, in which the four logo layers lie: the text shares no area
\* with any logo layer. The bounding box of the text is vertically centred
\* on y = 0.
TextRightOfLogo ==
    op = "create_logotext_faces" =>
        /\ ret.exc = "none"
        /\ ret.text2[1] = 2 * (5000 + 2300) * args.diameter
        /\ ret.text2[1] > 2 * ret.circle[3]
        /\ ~RectsOverlap(ret.text2, [k \in 1..4 |-> 2 * ret.circle[k]])
        /\ ret.text2[2] + ret.text2[4] = 0
        /\ ret.text2[2] < ret.text2[4]
        /\ ret.text2[1] < ret.text2[3]

\* Witness of C26: the layout of the default diameter of 18 was computed,
\* the text starting at x = 13.14 and being 9.9 high.
LayoutOfDefaultDiameter ==
    /\ op = "create_logotext_faces"
    /\ args.diameter = 18
    /\ ret.exc = "none"
    /\ ret.text2[1] = 2 * 131400
    /\ ret.text2[4] - ret.text2[2] = 2 * 99000

\* ------------------------------------------------------------------------
\* Re-editing a result through its task panel
\* ------------------------------------------------------------------------
AcceptOps == {"accept_logo", "accept_logotext", "accept_qr"}

\* the result objects of a document that are of the kind the panel makes
OfPanelKind(results, panel) ==
    {k \in 1..Len(results) :
        \/ panel = "accept_logo" /\ IsLogoResult(results[k])
        \/ panel = "accept_logotext" /\ IsLogoTextResult(results[k])
        \/ panel = "accept_qr" /\ IsQRResult(results[k])}

\* C27: after a successful accept of a panel opened on an existing result
\* object the document holds as many result objects as before, as many of
\* the kind of the panel as before, and every other result object is still
\* there: the edited object was either updated in place (it keeps its name,
\* type and position) or removed, the new object taking its place at the
\* end of the document; the old and a new object are never both kept.
ReEditReplaces ==
    (op \in AcceptOps /\ args.edit # 0 /\ ret.accepted) =>
        LET before == args.before.results
            after == doc.results
            old == before[args.edit]
        IN  /\ Len(after) = Len(before)
            /\ Cardinality(OfPanelKind(after, op))
                   = Cardinality(OfPanelKind(before, op))
            /\ Cardinality(OfPanelKind(after, op)) >= 1
            /\ \A k \in 1..Len(before) :
                  k # args.edit =>
                      \E j \in 1..Len(after) : after[j].Name = before[k].Name
            /\ \A j \in 1..Len(after) : \A k \in 1..Len(after) :
                  j # k => after[j].Name # after[k].Name
            /\ \E j \in OfPanelKind(after, op) :
                  /\ after[j].Name = ret.object
                  /\ \/ /\ j = args.edit
                        /\ after[j].Name = old.Name
                        /\ after[j].TypeId = old.TypeId
                        /\ after[j].TypeId # "Part::FeaturePython"
                     \/ /\ j = Len(after)
                        /\ after[j].TypeId = "Part::FeaturePython"
                        /\ old.TypeId = "Part::FeaturePython"
                        /\ RemoveAt(before, args.edit)
                               = SubSeq(after, 1, Len(after) - 1)

\* Witness of C27: a document-level logo+text result was re-edited with
\* another text depth and accepted.
LogoTextResultReplaced ==
    /\ op = "accept_logotext"
    /\ args.edit # 0
    /\ ret.accepted
    /\ args.before.results[args.edit].TypeId = "Part::FeaturePython"
    /\ args.before.results[args.edit].props.LogoText_TextPct
           # args.widgets.text_pct
    /\ doc.results[Len(doc.results)].props.LogoText_TextPct
           = args.widgets.text_pct

\* C28: when the orchestrator call inside accept raises, accept returns
\* False with the dialog left open and the document as it was before the
\* call: no result object added or removed, the result being re-edited with
\* its shape and stored parameters, the base object as visible as before.
FailedAcceptKeepsDocument ==
    (op \in AcceptOps /\ ret.exc # "none") =>
        /\ ~ret.accepted
        /\ ret.dialog = "open"
        /\ "object" \notin DOMAIN ret
        /\ doc = args.before
        /\ doc.base.Visibility = args.before.base.Visibility
        /\ Len(doc.results) = Len(args.before.results)
        /\ args.edit # 0 =>
              /\ doc.results[args.edit].Shape
                     = args.before.results[args.edit].Shape
              /\ doc.results[args.edit].props
                     = args.before.results[args.edit].props

\* Witness of C28: the kernel rejected a cut while a logo+text result of a
\* document with a visible base object was being re-edited.
ReEditRejectedByKernel ==
    /\ op = "accept_logotext"
    /\ args.edit # 0
    /\ ret.exc = "OCCError"
    /\ args.before.base.Visibility
    /\ doc.results[args.edit].props.LogoText_TextPct # args.widgets.text_pct

\* ------------------------------------------------------------------------
\* Placement of the glyphs of a text
\* ------------------------------------------------------------------------
\* the sum of advance width + 1.0 (10 tenths) over the characters before i
RECURSIVE PrecedingAdvance(_, _)
PrecedingAdvance(text, i) ==
    IF i <= 1 THEN 0
    ELSE PrecedingAdvance(text, i - 1) + _GLYPHS[text[i - 1]].adv + 10

PolygonVertices(polys) ==
    UNION {{polys[k][v] : v \in 1..Len(polys[k])} : k \in 1..Len(polys)}

\* a polygon that is the axis-parallel rectangle of its own vertices
IsRectangle(poly) ==
    LET vs == {poly[v] : v \in 1..Len(poly)}
    IN  /\ Len(poly) = 4
        /\ vs = {MinOf({q[1] : q \in vs}), MaxOf({q[1] : q \in vs})}
                    \X {MinOf({q[2] : q \in vs}), MaxOf({q[2] : q \in vs})}

\* every vertex of the hole lies strictly inside the rectangle outer
HoleInside(hole, outer) ==
    LET vs == {outer[v] : v \in 1..Len(outer)}
    IN  /\ IsRectangle(outer)
        /\ \A v \in 1..Len(hole) :
              /\ MinOf({q[1] : q \in vs}) < hole[v][1]
              /\ hole[v][1] < MaxOf({q[1] : q \in vs})
              /\ MinOf({q[2] : q \in vs}) < hole[v][2]
              /\ hole[v][2] < MaxOf({q[2] : q \in vs})

\* every glyph of the table lies in [0, advance] x [0, cap height], reaches
\* both x = 0 and x = advance, and has its holes inside an outer polygon
GlyphTableInBox ==
    \A ch \in DOMAIN _GLYPHS :
        LET g == _GLYPHS[ch]
            vs == PolygonVertices(g.outers) \cup PolygonVertices(g.holes)
        IN  /\ \A q \in vs : 0 <= q[1] /\ q[1] <= g.adv
                             /\ 0 <= q[2] /\ q[2] <= 100
            /\ \E q \in PolygonVertices(g.outers) : q[1] = 0
            /\ \E q \in PolygonVertices(g.outers) : q[1] = g.adv
            /\ \A h \in 1..Len(g.holes) :
                  \E k \in 1..Len(g.outers) : HoleInside(g.holes[h], g.outers[k])

\* C29: in text assembly glyph i is placed at
\* x = scale * (sum over the preceding characters of advance width + 1.0)
\* with scale = cap_height / 10; every glyph of the table lies inside
\* [0, advance width] x [0, 10] design units with each hole inside an outer
\* polygon; the footprints of consecutive glyphs do not overlap and are
\* separated horizontally by exactly 1.0 * scale.
GlyphsSeparatedByGap ==
    (op = "_create_text_shape" /\ ret.exc = "none") =>
        LET g == ret.glyphs
            cap == args.cap_height
            XMin(i) == MinOf({q[1] : q \in PolygonVertices(g[i].outers)
                                          \cup PolygonVertices(g[i].holes)})
            XMax(i) == MaxOf({q[1] : q \in PolygonVertices(g[i].outers)
                                          \cup PolygonVertices(g[i].holes)})
        IN  /\ GlyphTableInBox
            /\ Len(g) = Len(args.text)
            /\ \A i \in 1..Len(g) :
                  /\ g[i].char = args.text[i]
                  /\ g[i].x = cap * PrecedingAdvance(args.text, i)
                  /\ XMin(i) = g[i].x
                  /\ XMax(i) = g[i].x + cap * _GLYPHS[args.text[i]].adv
                  /\ \A q \in PolygonVertices(g[i].outers)
                                  \cup PolygonVertices(g[i].holes) :
                        0 <= q[2] /\ q[2] <= 100 * cap
            /\ \A i \in 1..(Len(g) - 1) :
                  /\ XMin(i + 1) - XMax(i) = 10 * cap
                  /\ XMax(i) < XMin(i + 1)

\* Witness of C29: a text of three glyphs of different widths, one of them
\* with a hole, was assembled at cap height 2.
ThreeGlyphsPlaced ==
    /\ op = "_create_text_shape"
    /\ ret.exc = "none"
    /\ args.text = <<"T", "a", "i">>
    /\ args.cap_height = 2
    /\ ret.glyphs[3].x = 2 * (70 + 10 + 54 + 10)

\* ------------------------------------------------------------------------
\* Send to Blender (blender_command.SendToBlenderTaskPanel.accept)
\*
\* The surroundings of one accept are a record: the folder the user picks
\* in the dialog ("" when the dialog is cancelled), what the object offers
\* for export, what stands at the path of the scene script in the folder
\* of the plugin (template), at the path of that name in the chosen folder
\* (dst) and, where a folder stands at the destination, at the path of
\* that name inside it (inner), and whether the mesh writer, the writing
\* of the copy at its destination, the writing of the launcher and the
\* start of the process go through.  In the folder of the plugin the
\* destination is the path of the source, and dst is not looked at.
\* The effects of accept are listed in trace in the order they happen.
\* ------------------------------------------------------------------------
PluginDir == "/home/user/Mod/Logo"

SaveDirs == {"", "/home/user/render", PluginDir}

BlenderSurroundings ==
    [save_dir : SaveDirs, obj : {"Shape", "Mesh"},
     export : {"ok", "raise"},
     template : {"file", "missing", "folder", "fifo"},
     dst : {"absent", "file", "folder", "fifo"},
     inner : {"absent", "file", "folder", "fifo"},
     copy : {"ok", "raise"},
     launcher : {"ok", "raise"},
     popen : {"started", "PermissionError", "OSError"}]

\* _export_stl: the mesh of the shape, or the mesh of the object, written
\* to the file
_export_stl(obj, export) ==
    IF obj \notin {"Shape", "Mesh"}
    THEN [exc |-> "RuntimeError", trace |-> <<>>]
    ELSE IF export = "raise"
    THEN [exc |-> "Exception", trace |-> <<"write_stl:raise">>]
    ELSE [exc |-> "none", trace |-> <<"write_stl">>]

\* shutil.copy2(src_script, dst_script), in the order of its steps:
\*   copy2     a destination that is a folder is replaced by the path of
\*             the name of the source inside it;
\*   copyfile  SameFileError when source and destination are the same
\*             existing file; SpecialFileError when the source or the
\*             destination is a named pipe; the source is opened
\*             (FileNotFoundError, IsADirectoryError), then the
\*             destination (IsADirectoryError, or another OSError when it
\*             cannot be written), and the data and the metadata are
\*             copied.
CopyScript(save_dir, template, dst, inner, copy) ==
    LET at == IF save_dir # PluginDir THEN dst
              ELSE IF template = "missing" THEN "absent" ELSE template
        final == IF at = "folder" THEN inner ELSE at
    IN  IF save_dir = PluginDir /\ at \in {"file", "fifo"}
        THEN [exc |-> "SameFileError", trace |-> <<"copy2:raise">>]
        ELSE IF template = "fifo" \/ final = "fifo"
        THEN [exc |-> "SpecialFileError", trace |-> <<"copy2:raise">>]
        ELSE IF template = "missing"
        THEN [exc |-> "FileNotFoundError", trace |-> <<"copy2:raise">>]
        ELSE IF template = "folder" \/ final = "folder"
        THEN [exc |-> "IsADirectoryError", trace |-> <<"copy2:raise">>]
        ELSE IF copy = "raise"
        THEN [exc |-> "OSError", trace |-> <<"copy2:raise">>]
        ELSE [exc |-> "none", trace |-> <<"copy2">>]

\* the launcher script: open, two writes, chmod
WriteLauncher(launcher) ==
    IF launcher = "raise"
    THEN [exc |-> "OSError", trace |-> <<"open_launcher:raise">>]
    ELSE [exc |-> "none", trace |-> <<"write_launcher", "chmod">>]

\* subprocess.Popen(cmd) and what is shown afterwards
Launch(popen) ==
    IF popen = "started"
    THEN <<"Popen", "PrintMessage">>
    ELSE <<"Popen:raise", "PrintWarning", "_show_launch_dialog">>

\* accept after a successful export: copy, launcher, closeDialog, launch
AcceptAfterExport(e, tr) ==
    LET copied == CopyScript(e.save_dir, e.template, e.dst, e.inner,
                            e.copy)
        written == WriteLauncher(e.launcher)
    IN  IF copied.exc # "none"
        THEN [exc |-> copied.exc, dialog |-> "open",
              trace |-> tr \o copied.trace]
        ELSE IF written.exc # "none"
        THEN [exc |-> written.exc, dialog |-> "open",
              trace |-> tr \o copied.trace \o written.trace]
        ELSE [exc |-> "none", value |-> TRUE, dialog |-> "closed",
              trace |-> tr \o copied.trace \o written.trace
                           \o <<"closeDialog">> \o Launch(e.popen)]

\* SendToBlenderTaskPanel.accept
SendToBlender_accept(e) ==
    IF e.save_dir = ""
    THEN [exc |-> "none", value |-> FALSE, dialog |-> "open",
          trace |-> <<"getExistingDirectory">>]
    ELSE LET exported == _export_stl(e.obj, e.export)
         IN  IF exported.exc # "none"
             THEN [exc |-> "none", value |-> FALSE, dialog |-> "open",
                   trace |-> <<"getExistingDirectory">> \o exported.trace
                                \o <<"PrintError", "critical">>]
             ELSE AcceptAfterExport(e, <<"getExistingDirectory">>
                                           \o exported.trace)

InitBlender ==
    /\ op = "panel_blender"
    /\ args \in BlenderSurroundings
    /\ ret = NoRet
    /\ heap = <<>>
    /\ trace = <<>>
    /\ doc = NoDoc

SendToBlenderAccept ==
    /\ op = "panel_blender"
    /\ \E done \in {SendToBlender_accept(args)} :
          /\ op' = "accept_blender"
          /\ ret' = [f \in (DOMAIN done) \ {"trace"} |-> done[f]]
          /\ trace' = done.trace
    /\ UNCHANGED <<args, heap, doc>>

NextBlender == SendToBlenderAccept

SpecBlender == InitBlender /\ [][NextBlender]_vars

\* the position of an effect in trace, 0 when it did not happen
Position(effect) ==
    IF \E k \in 1..Len(trace) : trace[k] = effect
    THEN CHOOSE k \in 1..Len(trace) : trace[k] = effect
    ELSE 0

LaunchAttempted == Position("Popen") # 0 \/ Position("Popen:raise") # 0

\* C30: when the folder dialog is cancelled or the STL export fails, accept
\* returns False, the launcher is not written and Blender is not started;
\* otherwise the STL export, the copy of the scene script and the launcher
\* are completed, in this order, before the launch is attempted, and accept
\* returns True whether the launch succeeds or fails, the fallback command
\* being shown after a failed launch.
BlenderAcceptOutcome ==
    op = "accept_blender" =>
        IF args.save_dir = "" \/ args.export = "raise"
        THEN /\ ret.exc = "none"
             /\ ret.value = FALSE
             /\ Position("write_launcher") = 0
             /\ ~LaunchAttempted
        ELSE /\ ret.exc = "none"
             /\ ret.value = TRUE
             /\ LaunchAttempted
             /\ 0 < Position("write_stl")
             /\ Position("write_stl") < Position("copy2")
             /\ Position("copy2") < Position("write_launcher")
             /\ Position("write_launcher") < Position("chmod")
             /\ \A k \in 1..Len(trace) :
                   trace[k] \in {"Popen", "Popen:raise"} =>
                       Position("chmod") < k
             /\ args.popen # "started" =>
                   Position("Popen:raise") < Position("_show_launch_dialog")
             /\ args.popen = "started" => Position("_show_launch_dialog") = 0

====
